---- MODULE Spec2Model ----
(***************************************************************************)
(* The lithophane core of Studio-Pro's 3D app: ImageProcessor              *)
(* .processImage and .generateHeightmap, GeometryGenerator.generateMesh    *)
(* and STLExporter.parse, run as the pipeline source image -> filtered     *)
(* image -> heightmap -> mesh -> binary STL; the same calls repeated on    *)
(* the one canvas of the ImageProcessor; and the store and the handlers of *)
(* Controls that drive them (uploads, setting changes, the debounce).      *)
(*                                                                         *)
(* Numbers.  The code computes in IEEE floating point; the model computes  *)
(* the same expressions exactly, on integers with a stated unit:           *)
(*   - a heightmap value h is held as h * HScale (HScale = 255 * 1000, so  *)
(*     the luminance 0.299r + 0.587g + 0.114b divided by 255 is the        *)
(*     integer 299r + 587g + 114b);                                        *)
(*   - a smoothed heightmap value is held in units of                      *)
(*     1 / (HScale * BlurDen^iterations), BlurDen = 36 being a common      *)
(*     multiple of every neighbour count 1,2,3,4,6,9 of the 3x3 box;       *)
(*   - a vertex is <<x, y, z>> with x in units of 1/(2*totalSegsX) mm,     *)
(*     y in units of 1/(2*totalSegsY) mm and z in units of                 *)
(*     1/FinalScale(settings) mm.  All three factors are positive, so the  *)
(*     sign of every coordinate difference and of every component of a     *)
(*     cross product is the sign the code computes.  A vertex of a curved  *)
(*     mesh is held as the terms of its position (see Vertices).           *)
(*   - a colour channel on its way through the point operations of        *)
(*     applyFilters is an exact fraction <<n, d>> (d > 0; <<0, 0>> is NaN). *)
(* Rounding to Float32 is not modelled.                                    *)
(***************************************************************************)
EXTENDS Integers, Sequences, FiniteSets, TLC

VARIABLES
    pc,              \* stage reached: "source", "image", "heightmap", "mesh", "stl",
                     \* or "failed" when a stage threw
    originalImage,   \* the loaded HTMLImageElement: width, height and its pixels
    imageSettings,   \* ImageSettings handed to processImage
    canvas,          \* the canvas of the ImageProcessor singleton and its context
    imageData,       \* ImageData {width, height, data} returned by processImage
    imageDimensions, \* the store's imageDimensions, handed to generateMesh
    settings,        \* ModelSettings: resolution for processImage, the rest for generateMesh
    heightmap,       \* Float32Array returned by generateHeightmap (<<>> before)
    geometry,        \* BufferGeometry returned by generateMesh
    buffer,          \* ArrayBuffer returned by STLExporter.parse
    error,           \* name of the exception a stage threw, "none" if none did
    timer,           \* the setTimeout the effect of Controls holds, with the image,
                     \* image settings and resolution its callback closed over
    uploads          \* the handleFileUpload calls made, in order, each with the state
                     \* of its loadImage promise and what the call closed over

vars == <<pc, originalImage, imageSettings, canvas, imageData, imageDimensions, settings,
          heightmap, geometry, buffer, error, timer, uploads>>

(***************************************************************************)
(* Bounds of the checked inputs.                                           *)
(***************************************************************************)
MaxPx == 2      \* images of 1..MaxPx by 1..MaxPx pixels
MaxSrc == 3     \* source images of the filter runs: 1..MaxSrc by 1..MaxSrc pixels
MaxLen == 5     \* heightmaps of 0..MaxLen values handed to generateMesh directly

(***************************************************************************)
(* Program constants.                                                      *)
(***************************************************************************)
AlphaThreshold == 10
LumScale == 1000
HScale == 255 * LumScale
BlurDen == 4 * 9
NaN == 0 - 1          \* a z that JavaScript would compute as NaN (all real z are >= 0)
Infinity == 2147483647    \* a segment count JavaScript would compute as Infinity
Undefined == 0 - 1    \* a typed-array read outside the array (all real values are >= 0)

(***************************************************************************)
(* Inputs.                                                                 *)
(***************************************************************************)
\* RGBA samples the input images are built from: opaque white and black,
\* coloured pixels just below and exactly at the alpha threshold, and a
\* fully transparent grey.
Palette ==
    << <<255, 255, 255, 255>>,
       <<0, 0, 0, 255>>,
       <<255, 0, 0, 9>>,
       <<10, 200, 30, 10>>,
       <<128, 128, 128, 0>> >>

\* The ImageData of a w x h image whose pixel i (row-major, from 0) is
\* Palette[(seed + i*step) mod Len(Palette)].
PatternImage(w, h, seed, step) ==
    [ width  |-> w,
      height |-> h,
      data   |-> [ k \in 1..(4 * w * h) |->
                     Palette[((seed + ((k - 1) \div 4) * step) % Len(Palette)) + 1]
                            [((k - 1) % 4) + 1] ] ]

Images ==
    { PatternImage(w, h, seed, step) :
        w \in 1..MaxPx, h \in 1..MaxPx, seed \in 0..(Len(Palette) - 1), step \in 0..1 }

\* The 4x4 all-white opaque image of the end-to-end example.
ExampleImage == PatternImage(4, 4, 0, 0)

\* defaultModelSettings of the store (the fields generateMesh reads)
DefaultModelSettings ==
    [ width |-> 100, height |-> 100, depth |-> 5, baseHeight |-> 2,
      smoothing |-> FALSE, smoothingIterations |-> 2,
      frameWidth |-> 0, frameDepth |-> 5, curveAngle |-> 0, resolution |-> 1024 ]

\* The settings of the end-to-end example: depth 5, baseHeight 2, no frame,
\* flat; everything else as the store's defaults.
ExampleSettings == DefaultModelSettings

\* The example image under a frame two pixels wide: a grid of 8 x 8 cells,
\* whose triangle count needs more than one byte.
FramedExampleSettings ==
    [DefaultModelSettings EXCEPT !.frameWidth = 2, !.width = 4, !.height = 4]

\* Model widths and heights are powers of two, so that px / mm and its
\* product with frameWidth are exact in floating point too.
ModelSettingsSet ==
    { DefaultModelSettings,
      [DefaultModelSettings EXCEPT !.frameDepth = 1],
      [DefaultModelSettings EXCEPT !.frameDepth = 1, !.width = 4, !.height = 1],
      [DefaultModelSettings EXCEPT !.frameWidth = 1, !.frameDepth = 1, !.width = 2,
                                   !.height = 2],
      [DefaultModelSettings EXCEPT !.frameWidth = 1, !.frameDepth = 9, !.width = 4,
                                   !.height = 1],
      [DefaultModelSettings EXCEPT !.frameWidth = 2, !.frameDepth = 3, !.width = 4,
                                   !.height = 4, !.depth = 1, !.baseHeight = 0],
      [DefaultModelSettings EXCEPT !.smoothing = TRUE, !.smoothingIterations = 1,
                                   !.frameDepth = 1],
      [DefaultModelSettings EXCEPT !.smoothing = TRUE, !.smoothingIterations = 2,
                                   !.depth = 3, !.frameWidth = 1, !.frameDepth = 1,
                                   !.width = 2, !.height = 2],
      [DefaultModelSettings EXCEPT !.smoothing = TRUE, !.smoothingIterations = 0,
                                   !.frameDepth = 1],
      [DefaultModelSettings EXCEPT !.curveAngle = 90, !.frameDepth = 1],
      [DefaultModelSettings EXCEPT !.curveAngle = 45, !.frameWidth = 1, !.frameDepth = 2,
                                   !.width = 2, !.height = 2] }

\* The ImageData of a w x h image whose pixel i is Palette[idx[i + 1] + 1].
PaletteImage(w, h, idx) ==
    [ width  |-> w,
      height |-> h,
      data   |-> [ k \in 1..(4 * w * h) |->
                     Palette[idx[((k - 1) \div 4) + 1] + 1][((k - 1) % 4) + 1] ] ]

\* A 4 x 3 image with two interior pixels, on which a second median pass
\* changes the result of the first and filtering in place would change the
\* result of filtering from a snapshot.
TwoInteriorImage == PaletteImage(4, 3, <<3, 4, 3, 3, 2, 4, 4, 0, 3, 1, 2, 0>>)

\* The source images of the filter runs.
SourceImages ==
    { PatternImage(w, h, seed, step) :
        w \in 1..MaxSrc, h \in 1..MaxSrc, seed \in 0..(Len(Palette) - 1), step \in 0..1 }
    \cup { TwoInteriorImage }

\* maxResolution values of the filter runs: below, at and above the sizes of
\* the source images, and the store's default
Resolutions == { 1, 2, MaxSrc, 1024 }

\* ImageSettings with every effect off.  gamma is held in tenths (10 is 1.0),
\* the step of its slider.
NoEffects ==
    [ invert |-> FALSE, sharpen |-> 0, blur |-> 0, contrast |-> 0, brightness |-> 0,
      gamma |-> 10, noiseReduction |-> 0, grayscale |-> FALSE ]

\* defaultImageSettings of the store
DefaultImageSettings == [NoEffects EXCEPT !.grayscale = TRUE]

\* Contrast, gamma and sharpen take the values whose factors are exact in
\* floating point or whose exact result is far from a rounding tie, so that
\* the exact fractions of the model round as the code's doubles do.
ImageSettingsSet ==
    { NoEffects,
      DefaultImageSettings,
      [NoEffects EXCEPT !.invert = TRUE],
      [NoEffects EXCEPT !.brightness = 50],
      [NoEffects EXCEPT !.brightness = 0 - 100],
      [NoEffects EXCEPT !.contrast = 100],
      [NoEffects EXCEPT !.contrast = 0 - 100, !.invert = TRUE],
      [NoEffects EXCEPT !.brightness = 50, !.contrast = 0 - 100],
      [NoEffects EXCEPT !.grayscale = TRUE, !.brightness = 20, !.contrast = 2,
                        !.invert = TRUE],
      [NoEffects EXCEPT !.gamma = 5],
      [NoEffects EXCEPT !.gamma = 20, !.brightness = 0 - 100],
      [NoEffects EXCEPT !.noiseReduction = 1],
      [NoEffects EXCEPT !.noiseReduction = 4],
      [NoEffects EXCEPT !.sharpen = 5],
      [NoEffects EXCEPT !.sharpen = 10, !.brightness = 0 - 100],
      [NoEffects EXCEPT !.blur = 1],
      [NoEffects EXCEPT !.grayscale = TRUE, !.noiseReduction = 3, !.sharpen = 5,
                        !.blur = 2] }

\* Heightmaps handed to generateMesh directly: all 0.0, all 1.0, and
\* alternating, of every length up to MaxLen.
CallHeightmaps ==
    UNION { { [ i \in 1..len |-> 0 ],
              [ i \in 1..len |-> HScale ],
              [ i \in 1..len |-> IF i % 2 = 1 THEN HScale ELSE 0 ] } : len \in 0..MaxLen }

\* Model settings handed to generateMesh directly: valid ones, with and
\* without a frame, ones that put the frame ring at Z = 0, and ones with a
\* model width or height of 0.
CallSettings ==
    { [DefaultModelSettings EXCEPT !.frameDepth = 1],
      [DefaultModelSettings EXCEPT !.frameWidth = 1, !.frameDepth = 1, !.width = 2,
                                   !.height = 2],
      [DefaultModelSettings EXCEPT !.baseHeight = 0, !.frameDepth = 0],
      [DefaultModelSettings EXCEPT !.width = 0],
      [DefaultModelSettings EXCEPT !.height = 0, !.frameDepth = 1],
      [DefaultModelSettings EXCEPT !.width = 0, !.frameWidth = 1] }

\* A geometry with three vertices and an empty index: no triangle.
EmptyMesh ==
    [ vertices |-> << <<0, 0, 0>>, <<1, 0, 0>>, <<0, 1, 0>> >>,
      indices  |-> <<>>,
      curved   |-> FALSE ]

\* A geometry whose triangles are: three collinear points, a point taken
\* twice, and a proper triangle.
DegenerateMesh ==
    [ vertices |-> << <<0, 0, 0>>, <<1, 1, 1>>, <<3, 3, 3>>, <<0, 1, 0>> >>,
      indices  |-> <<0, 1, 2, 0, 0, 3, 0, 1, 3>>,
      curved   |-> FALSE ]

NoImage == [ width |-> 0, height |-> 0, data |-> <<>> ]
\* the canvas as document.createElement('canvas') makes it: 300 x 150,
\* filter 'none' (held as blur radius 0), nothing drawn (data <<>>)
NewCanvas == [ width |-> 300, height |-> 150, filter |-> 0, data |-> <<>> ]
NoGeometry == [ vertices |-> <<>>, indices |-> <<>>, curved |-> FALSE ]
NoBuffer == [ byteLength |-> 0, header |-> <<>>, triangleCount |-> <<>>, facets |-> <<>> ]
\* no timeout pending
NoTimer == [ pending |-> FALSE, img |-> NoImage, st |-> NoEffects, resolution |-> 0 ]

(***************************************************************************)
(* ImageProcessor.processImage and applyFilters                            *)
(***************************************************************************)
\* WorkingSize with Math.max in place of Math.min: the ratio of the smaller side
WorkingSizeMax(width, height, maxResolution) ==
    IF width > maxResolution \/ height > maxResolution
    THEN LET larger == IF width < height THEN width ELSE height
         IN  [ width  |-> (width * maxResolution) \div larger,
               height |-> (height * maxResolution) \div larger ]
    ELSE [ width |-> width, height |-> height ]

\* The width and height processImage works at: Math.floor(width * ratio) and
\* Math.floor(height * ratio) for ratio = Math.min(maxResolution / width,
\* maxResolution / height), the quotient over the larger side, when a side
\* exceeds maxResolution.
WorkingSize(width, height, maxResolution) ==
    IF width > maxResolution \/ height > maxResolution
    THEN LET larger == IF width > height THEN width ELSE height
         IN  [ width  |-> (width * maxResolution) \div larger,
               height |-> (height * maxResolution) \div larger ]
    ELSE [ width |-> width, height |-> height ]

\* ctx.drawImage(img, 0, 0, width, height) followed by getImageData: the
\* pixels of img scaled to width x height.  The scaling is the browser's; it
\* is stood in for by nearest-neighbour sampling, which is the identity when
\* the size is unchanged.  The rounding of premultiplied alpha is left out.
DrawImage(img, width, height) ==
    [ k \in 1..(4 * width * height) |->
        LET p  == (k - 1) \div 4
            sx == ((p % width) * img.width) \div width
            sy == ((p \div width) * img.height) \div height
        IN  img.data[4 * (sy * img.width + sx) + ((k - 1) % 4) + 1] ]

RECURSIVE GCD(_, _)
GCD(a, b) == IF b = 0 THEN a ELSE GCD(b, a % b)

\* factor = (259 * (contrast + 255)) / (255 * (259 - contrast)), in lowest terms
ContrastFactor(contrast) ==
    LET n == 259 * (contrast + 255)
        d == 255 * (259 - contrast)
        g == GCD(n, d)
    IN  << n \div g, d \div g >>

\* avg = 0.299 * r + 0.587 * g + 0.114 * b
Grayscale(r, g, b) == << 299 * r + 587 * g + 114 * b, 1000 >>

\* v + brightness
Brighten(v, brightness) == << v[1] + brightness * v[2], v[2] >>

\* ContrastMap with the pivot added back as 127
ContrastMapPivot127(v, factor) ==
    << factor[1] * (v[1] - 128 * v[2]) + 127 * factor[2] * v[2], factor[2] * v[2] >>

\* factor * (v - 128) + 128
ContrastMap(v, factor) ==
    << factor[1] * (v[1] - 128 * v[2]) + 128 * factor[2] * v[2], factor[2] * v[2] >>

\* 255 - v
Invert(v) == << 255 * v[2] - v[1], v[2] >>

\* the integer nearest to 255 * sqrt(v / 255) for 0 <= v < 255
RoundedRoot(v) ==
    CHOOSE k \in 0..255 :
        /\ (2 * k - 1) * (2 * k - 1) * v[2] <= 1020 * v[1] \/ k = 0
        /\ 1020 * v[1] < (2 * k + 1) * (2 * k + 1) * v[2]

\* 255 * Math.pow(v / 255, 1 / gamma), gamma in tenths.  gamma 0.5 squares:
\* the result is v * v / 255.  gamma 2.0 takes the square root, NaN for a
\* negative v; that result is irrational and is held as the integer nearest
\* to it, which is all that the store into the byte array keeps of it.
GammaCorrect(v, gamma) ==
    IF gamma = 5 THEN << v[1] * v[1], 255 * v[2] * v[2] >>
    ELSE IF v[1] < 0 THEN << 0, 0 >>
    ELSE IF v[1] >= 255 * v[2] THEN << 255, 1 >>
    ELSE << RoundedRoot(v), 1 >>

\* Math.max(0, Math.min(255, v)); NaN stays NaN
Clamp255(v) ==
    IF v[2] = 0 THEN v
    ELSE IF v[1] < 0 THEN << 0, 1 >>
    ELSE IF v[1] > 255 * v[2] THEN << 255, 1 >>
    ELSE v

\* the store of a number in [0, 255] into a Uint8ClampedArray: rounded to the
\* nearest integer, a tie to the even one; NaN is stored as 0
ToUint8Clamped(v) ==
    IF v[2] = 0 THEN 0
    ELSE LET f == v[1] \div v[2]
             twice == 2 * (v[1] - f * v[2])
         IN  IF twice < v[2] THEN f
             ELSE IF twice > v[2] THEN f + 1
             ELSE IF f % 2 = 0 THEN f ELSE f + 1

\* PointChain clamping to [0, 255] after every step
PointChainClampEach(v, st) ==
    LET bright   == Clamp255(Brighten(v, st.brightness))
        contrast == Clamp255(ContrastMap(bright, ContrastFactor(st.contrast)))
        inverted == IF st.invert THEN Clamp255(Invert(contrast)) ELSE contrast
        gammaed  == IF st.gamma # 10 /\ st.gamma > 0
                    THEN GammaCorrect(inverted, st.gamma) ELSE inverted
    IN  ToUint8Clamped(Clamp255(gammaed))

\* the chain of point operations on one channel value v: brightness,
\* contrast, invert, gamma, then the clamp and the store
PointChain(v, st) ==
    LET bright   == Brighten(v, st.brightness)
        contrast == ContrastMap(bright, ContrastFactor(st.contrast))
        inverted == IF st.invert THEN Invert(contrast) ELSE contrast
        gammaed  == IF st.gamma # 10 /\ st.gamma > 0
                    THEN GammaCorrect(inverted, st.gamma) ELSE inverted
    IN  ToUint8Clamped(Clamp255(gammaed))

\* step 1 of applyFilters: every pixel's R, G, B through the chain, from the
\* luminance when grayscale is on; alpha is not written
PointOps(data, st) ==
    [ k \in 1..Len(data) |->
        LET i == 4 * ((k - 1) \div 4)
            c == (k - 1) % 4
        IN  IF c = 3 THEN data[k]
            ELSE IF st.grayscale
                 THEN PointChain(Grayscale(data[i + 1], data[i + 2], data[i + 3]), st)
                 ELSE PointChain(<< data[k], 1 >>, st) ]

\* x === 0 || x === w - 1 || y === 0 || y === h - 1 is false
Interior(x, y, w, h) == x >= 1 /\ x <= w - 2 /\ y >= 1 /\ y <= h - 2

\* sorted[4] of the nine values of channel c around (x, y): the fifth smallest
Median9(copy, w, x, y, c) ==
    LET val(j) == copy[4 * ((y + (j \div 3) - 1) * w + (x + (j % 3) - 1)) + c + 1]
    IN  CHOOSE m \in { val(j) : j \in 0..8 } :
            /\ Cardinality({ j \in 0..8 : val(j) < m }) <= 4
            /\ Cardinality({ j \in 0..8 : val(j) <= m }) >= 5

\* the first n samples of a pass that reads the array it is writing
RECURSIVE MedianInPlaceUpTo(_, _, _, _)
MedianInPlaceUpTo(data, w, h, n) ==
    IF n = 0 THEN data
    ELSE LET before == MedianInPlaceUpTo(data, w, h, n - 1)
             p == (n - 1) \div 4
             c == (n - 1) % 4
         IN  IF c < 3 /\ Interior(p % w, p \div w, w, h)
             THEN [before EXCEPT ![n] = Median9(before, w, p % w, p \div w, c)]
             ELSE before

\* MedianPass without the snapshot: neighbours already written are read back
MedianPassInPlace(copy, w, h) == MedianInPlaceUpTo(copy, w, h, Len(copy))

\* one pass of the median filter, reading the snapshot copy
MedianPass(copy, w, h) ==
    [ k \in 1..Len(copy) |->
        LET p == (k - 1) \div 4
            c == (k - 1) % 4
        IN  IF c < 3 /\ Interior(p % w, p \div w, w, h)
            THEN Median9(copy, w, p % w, p \div w, c)
            ELSE copy[k] ]

RECURSIVE NoiseReduction(_, _, _, _)
NoiseReduction(data, w, h, iterations) ==
    IF iterations = 0 THEN data
    ELSE MedianPass(NoiseReduction(data, w, h, iterations - 1), w, h)

\* Math.ceil(noiseReduction / 3)
MedianIterations(noiseReduction) == (noiseReduction + 2) \div 3

\* the first n samples of a sharpening that reads the array it is writing
RECURSIVE SharpenInPlaceUpTo(_, _, _, _, _)
SharpenInPlaceUpTo(data, w, h, sharpen, n) ==
    IF n = 0 THEN data
    ELSE LET before == SharpenInPlaceUpTo(data, w, h, sharpen, n - 1)
             p == (n - 1) \div 4
             c == (n - 1) % 4
             x == p % w
             y == p \div w
         IN  IF c < 3 /\ Interior(x, y, w, h)
             THEN LET around ==   before[4 * ((y - 1) * w + x) + c + 1]
                                + before[4 * ((y + 1) * w + x) + c + 1]
                                + before[4 * (y * w + (x - 1)) + c + 1]
                                + before[4 * (y * w + (x + 1)) + c + 1]
                  IN  [before EXCEPT ![n] = ToUint8Clamped(Clamp255(
                          << before[n] * (10 + 4 * sharpen) - around * sharpen, 10 >>))]
             ELSE before

\* Sharpen without the snapshot
SharpenInPlace(copy, w, h, sharpen) == SharpenInPlaceUpTo(copy, w, h, sharpen, Len(copy))

\* step 3: copy * wCenter + (top + bottom + left + right) * wNeighbor with
\* amount = sharpen / 10, clamped and stored, for the interior pixels
Sharpen(copy, w, h, sharpen) ==
    [ k \in 1..Len(copy) |->
        LET p == (k - 1) \div 4
            c == (k - 1) % 4
            x == p % w
            y == p \div w
        IN  IF c < 3 /\ Interior(x, y, w, h)
            THEN LET around ==   copy[4 * ((y - 1) * w + x) + c + 1]
                               + copy[4 * ((y + 1) * w + x) + c + 1]
                               + copy[4 * (y * w + (x - 1)) + c + 1]
                               + copy[4 * (y * w + (x + 1)) + c + 1]
                 IN  ToUint8Clamped(Clamp255(
                         << copy[k] * (10 + 4 * sharpen) - around * sharpen, 10 >>))
            ELSE copy[k] ]

applyFilters(data, st, width, height) ==
    LET pointed  == PointOps(data, st)
        denoised == IF st.noiseReduction > 0
                    THEN NoiseReduction(pointed, width, height,
                                        MedianIterations(st.noiseReduction))
                    ELSE pointed
    IN  IF st.sharpen > 0 THEN Sharpen(denoised, width, height, st.sharpen) ELSE denoised

\* ctx.filter = blur(..px); drawImage(canvas, 0, 0); getImageData.  The
\* Gaussian blur is the browser's; it is stood in for by the rounded mean of
\* the 3 x 3 neighbourhood of every sample, transparent black outside.
CanvasBlur(data, w, h) ==
    [ k \in 1..Len(data) |->
        LET p == (k - 1) \div 4
            c == (k - 1) % 4
            x == p % w
            y == p \div w
            tap(nx, ny) == IF nx >= 0 /\ nx < w /\ ny >= 0 /\ ny < h
                           THEN data[4 * (ny * w + nx) + c + 1] ELSE 0
            sum ==   tap(x - 1, y - 1) + tap(x, y - 1) + tap(x + 1, y - 1)
                   + tap(x - 1, y)     + tap(x, y)     + tap(x + 1, y)
                   + tap(x - 1, y + 1) + tap(x, y + 1) + tap(x + 1, y + 1)
        IN  (2 * sum + 9) \div 18 ]

\* The ImageData processImage returns when getImageData does not throw.
processImage(img, st, maxResolution) ==
    LET size     == WorkingSize(img.width, img.height, maxResolution)
        filtered == applyFilters(DrawImage(img, size.width, size.height), st,
                                 size.width, size.height)
    IN  [ width  |-> size.width,
          height |-> size.height,
          data   |-> IF st.blur > 0
                     THEN CanvasBlur(filtered, size.width, size.height)
                     ELSE filtered ]

\* SetCanvasSize keeping the bitmap and the context when the size asked for
\* is the size the canvas has
SetCanvasSizeIfChanged(cv, width, height) ==
    IF cv.width = width /\ cv.height = height /\ Len(cv.data) = 4 * width * height
    THEN cv
    ELSE [ width |-> width, height |-> height, filter |-> 0,
           data |-> [ k \in 1..(4 * width * height) |-> 0 ] ]

\* this.canvas.width = width; this.canvas.height = height: assigning a
\* dimension clears the bitmap to transparent black and resets the context
\* (filter included), whatever the canvas held
SetCanvasSize(cv, width, height) ==
    [ width |-> width, height |-> height, filter |-> 0,
      data |-> [ k \in 1..(4 * width * height) |-> 0 ] ]

\* sample k of the source pixel composited over the canvas pixel
\* (source-over).  Over transparent black, and under an opaque source, the
\* result is the source pixel; the browser's premultiplied arithmetic in
\* between is stood in for by integer division.
SourceOver(dst, src, k) ==
    LET i  == 4 * ((k - 1) \div 4)
        sa == src[i + 4]
        da == dst[i + 4]
        oa == sa + (da * (255 - sa)) \div 255
    IN  IF da = 0 \/ sa = 255 THEN src[k]
        ELSE IF sa = 0 THEN dst[k]
        ELSE IF k = i + 4 THEN oa
        ELSE (src[k] * sa * 255 + dst[k] * da * (255 - sa)) \div (255 * oa)

\* ctx.drawImage(source, 0, 0, ...) on the canvas cv: the source pixels, put
\* through the context's filter when one is set, composited over the bitmap
CanvasDrawImage(cv, pixels) ==
    LET filtered == IF cv.filter > 0 THEN CanvasBlur(pixels, cv.width, cv.height)
                    ELSE pixels
    IN  [ cv EXCEPT !.data = [ k \in 1..Len(pixels) |-> SourceOver(cv.data, filtered, k) ] ]

\* the blur step: ctx.filter = blur(..px), drawImage(canvas, 0, 0) and
\* getImageData when settings.blur > 0, the filtered samples otherwise
BlurStep(data, w, h, blur) == IF blur > 0 THEN CanvasBlur(data, w, h) ELSE data

\* what processImage leaves and returns: putImageData and the blur step
\* have left data on the canvas, and blur as its filter
ReturnImageData(drawn, data, blur) ==
    [ canvas |-> [drawn EXCEPT !.filter = blur, !.data = data],
      threw  |-> FALSE,
      result |-> [ width |-> drawn.width, height |-> drawn.height, data |-> data ] ]

\* processImage from getImageData on, drawn being the canvas after
\* drawImage: getImageData throws for a canvas without pixels
FilterDrawn(drawn, st) ==
    IF drawn.width = 0 \/ drawn.height = 0
    THEN [ canvas |-> [drawn EXCEPT !.data = <<>>], threw |-> TRUE, result |-> NoImage ]
    ELSE ReturnImageData(drawn,
                         BlurStep(applyFilters(drawn.data, st, drawn.width, drawn.height),
                                  drawn.width, drawn.height, st.blur),
                         st.blur)

\* processImage from the canvas size on: canvas.width, canvas.height,
\* ctx.filter = 'none', drawImage(img, 0, 0, width, height)
DrawAndFilter(cv, img, st, size) ==
    FilterDrawn(CanvasDrawImage([SetCanvasSize(cv, size.width, size.height)
                                     EXCEPT !.filter = 0],
                                DrawImage(img, size.width, size.height)),
                st)

\* processImage on the canvas the ImageProcessor holds: the canvas it leaves,
\* whether getImageData threw, and the ImageData it returns
processImageOnCanvas(cv, img, st, maxResolution) ==
    DrawAndFilter(cv, img, st, WorkingSize(img.width, img.height, maxResolution))

(***************************************************************************)
(* ImageProcessor.generateHeightmap                                        *)
(***************************************************************************)
\* Luminance with the blue weight mistyped as 0.144: the weights sum to 1.03
LuminanceBlue144(r, g, b) == 299 * r + 587 * g + 144 * b

\* 0.299 r + 0.587 g + 0.114 b, times LumScale
Luminance(r, g, b) == 299 * r + 587 * g + 114 * b

\* HeightOfPixel with the threshold test off by one (a <= 10)
HeightOfPixelInclusive(data, i) ==
    LET r == data[i * 4 + 1]
        g == data[i * 4 + 2]
        b == data[i * 4 + 3]
        a == data[i * 4 + 4]
    IN  IF a <= AlphaThreshold THEN 0 ELSE Luminance(r, g, b)

\* heightmap[i] for the pixel at 0-based position i, in units of 1/HScale
HeightOfPixel(data, i) ==
    LET r == data[i * 4 + 1]
        g == data[i * 4 + 2]
        b == data[i * 4 + 3]
        a == data[i * 4 + 4]
    IN  IF a < AlphaThreshold THEN 0 ELSE Luminance(r, g, b)

generateHeightmap(img) ==
    [ i \in 1..(img.width * img.height) |-> HeightOfPixel(img.data, i - 1) ]

(***************************************************************************)
(* GeometryGenerator.generateMesh                                          *)
(***************************************************************************)
\* Math.round(a / b) for a >= 0, b > 0 (halves round up)
Round(a, b) == (2 * a + b) \div (2 * b)

\* FrameSegs without the "|| 1"
FrameSegsRounded(frameWidth, px, mm) == Round(frameWidth * px, mm)

\* Math.round(frameWidth * (px / mm)) || 1.  For mm = 0 the quotient px / mm
\* is Infinity (NaN when px = 0 too), its product with frameWidth is NaN when
\* frameWidth or px is 0, which "|| 1" turns into 1, and Infinity otherwise.
FrameSegs(frameWidth, px, mm) ==
    IF mm = 0
    THEN (IF frameWidth * px = 0 THEN 1 ELSE Infinity)
    ELSE LET r == Round(frameWidth * px, mm)
         IN  IF r = 0 THEN 1 ELSE r

\* TotalSegs with the frame counted on one side only
TotalSegsOneSide(frameWidth, px, mm) == px + FrameSegs(frameWidth, px, mm)

\* totalSegsX, totalSegsY = image pixels + 2 * frame segments
TotalSegs(frameWidth, px, mm) ==
    IF FrameSegs(frameWidth, px, mm) = Infinity THEN Infinity
    ELSE px + FrameSegs(frameWidth, px, mm) * 2

\* the term source[ny * w + nx] of the box sum (0 when out of bounds)
BlurTap(source, w, h, nx, ny) ==
    IF nx >= 0 /\ nx < w /\ ny >= 0 /\ ny < h THEN source[ny * w + nx + 1] ELSE 0

\* its contribution to count
BlurCount(w, h, nx, ny) ==
    IF nx >= 0 /\ nx < w /\ ny >= 0 /\ ny < h THEN 1 ELSE 0

\* BoxBlurPass dividing by nine whatever the number of neighbours in bounds
BoxBlurPassNine(source, w, h) ==
    [ i \in 1..(w * h) |->
        LET x == (i - 1) % w
            y == (i - 1) \div w
            sum ==   BlurTap(source, w, h, x - 1, y - 1) + BlurTap(source, w, h, x, y - 1)
                   + BlurTap(source, w, h, x + 1, y - 1) + BlurTap(source, w, h, x - 1, y)
                   + BlurTap(source, w, h, x, y)         + BlurTap(source, w, h, x + 1, y)
                   + BlurTap(source, w, h, x - 1, y + 1) + BlurTap(source, w, h, x, y + 1)
                   + BlurTap(source, w, h, x + 1, y + 1)
        IN  sum * (BlurDen \div 9) ]

\* One pass of the 3x3 box blur over a snapshot of the previous pass.  The
\* result sum / count is held in units BlurDen times finer than the source
\* (count divides BlurDen).
BoxBlurPass(source, w, h) ==
    [ i \in 1..(w * h) |->
        LET x == (i - 1) % w
            y == (i - 1) \div w
            sum ==   BlurTap(source, w, h, x - 1, y - 1) + BlurTap(source, w, h, x, y - 1)
                   + BlurTap(source, w, h, x + 1, y - 1) + BlurTap(source, w, h, x - 1, y)
                   + BlurTap(source, w, h, x, y)         + BlurTap(source, w, h, x + 1, y)
                   + BlurTap(source, w, h, x - 1, y + 1) + BlurTap(source, w, h, x, y + 1)
                   + BlurTap(source, w, h, x + 1, y + 1)
            count ==   BlurCount(w, h, x - 1, y - 1) + BlurCount(w, h, x, y - 1)
                     + BlurCount(w, h, x + 1, y - 1) + BlurCount(w, h, x - 1, y)
                     + BlurCount(w, h, x, y)         + BlurCount(w, h, x + 1, y)
                     + BlurCount(w, h, x - 1, y + 1) + BlurCount(w, h, x, y + 1)
                     + BlurCount(w, h, x + 1, y + 1)
        IN  sum * (BlurDen \div count) ]

RECURSIVE BoxBlur(_, _, _, _)
BoxBlur(hm, w, h, iters) ==
    IF iters = 0 THEN hm ELSE BoxBlurPass(BoxBlur(hm, w, h, iters - 1), w, h)

\* number of blur passes generateMesh runs
SmoothingPasses(st) ==
    IF st.smoothing /\ st.smoothingIterations > 0 THEN st.smoothingIterations ELSE 0

RECURSIVE Pow(_, _)
Pow(b, e) == IF e = 0 THEN 1 ELSE b * Pow(b, e - 1)

\* units per 1.0 of finalHeightmap, and units per millimetre of every z
FinalScale(st) == HScale * Pow(BlurDen, SmoothingPasses(st))

\* finalHeightmap
FinalHeightmap(hm, widthPx, heightPx, st) ==
    BoxBlur(hm, widthPx, heightPx, SmoothingPasses(st))

\* SampleIndex without the Math.min clamps
SampleIndexUnclamped(imgX, imgY, widthPx, heightPx) == imgY * widthPx + imgX

\* sy * widthPx + sx, the index generateMesh reads finalHeightmap at
SampleIndex(imgX, imgY, widthPx, heightPx) ==
    LET sx == IF imgX < widthPx - 1 THEN imgX ELSE widthPx - 1
        sy == IF imgY < heightPx - 1 THEN imgY ELSE heightPx - 1
    IN  sy * widthPx + sx

\* a typed-array read: undefined outside the array
ReadAt(arr, index) ==
    IF index >= 0 /\ index < Len(arr) THEN arr[index + 1] ELSE Undefined

\* InImageArea with strict comparisons: the seam counts as frame
InImageAreaStrict(imgX, imgY, widthPx, heightPx) ==
    imgX > 0 /\ imgX < widthPx /\ imgY > 0 /\ imgY < heightPx

\* the outer test of the height assignment: "inside image area (or edge)"
InImageArea(imgX, imgY, widthPx, heightPx) ==
    imgX >= 0 /\ imgX <= widthPx /\ imgY >= 0 /\ imgY <= heightPx

\* zVal of grid vertex (x, y), in units of 1/FinalScale(st)
ZVal(final, widthPx, heightPx, st, x, y) ==
    LET imgX == x - FrameSegs(st.frameWidth, widthPx, st.width)
        imgY == y - FrameSegs(st.frameWidth, heightPx, st.height)
        frameZ == (st.baseHeight + st.frameDepth) * FinalScale(st)
    IN  IF InImageArea(imgX, imgY, widthPx, heightPx)
        THEN LET val == ReadAt(final, SampleIndex(imgX, imgY, widthPx, heightPx))
             IN  IF st.frameWidth > 0
                    /\ (imgX < 0 \/ imgX > widthPx \/ imgY < 0 \/ imgY > heightPx)
                 THEN frameZ
                 ELSE IF val = Undefined THEN NaN
                      ELSE st.baseHeight * FinalScale(st) + val * st.depth
        ELSE frameZ

\* xFlat = xOffset + x * dx, times 2 * totalSegsX
XFlat(st, totalSegsX, x) == (st.width + st.frameWidth * 2) * (2 * x - totalSegsX)

\* yFlat = yOffset + (totalSegsY - y) * dy, times 2 * totalSegsY
YFlat(st, totalSegsY, y) ==
    (st.height + st.frameWidth * 2) * (2 * (totalSegsY - y) - totalSegsY)

\* topGrid[y * (totalSegsX + 1) + x] and botGrid[...]: vIndex++ hands the top
\* vertex of a grid point an even index and its bottom vertex the next one
topGrid(totalSegsX, y, x) == 2 * (y * (totalSegsX + 1) + x)
botGrid(totalSegsX, y, x) == 2 * (y * (totalSegsX + 1) + x) + 1

\* Vertices with the bottom vertex of a curved mesh turned about the axis at
\* the radius of its top vertex (bz = rTop * cos(angle) - radius)
VerticesBottomCosTop(final, widthPx, heightPx, st) ==
    LET totalSegsX == TotalSegs(st.frameWidth, widthPx, st.width)
        totalSegsY == TotalSegs(st.frameWidth, heightPx, st.height)
    IN  [ k \in 1..(2 * (totalSegsX + 1) * (totalSegsY + 1)) |->
            LET g == (k - 1) \div 2
                y == g \div (totalSegsX + 1)
                x == g % (totalSegsX + 1)
                xFlat == XFlat(st, totalSegsX, x)
                yFlat == YFlat(st, totalSegsY, y)
                zVal == ZVal(final, widthPx, heightPx, st, x, y)
            IN  IF st.curveAngle > 0
                THEN IF (k - 1) % 2 = 0
                     THEN << xFlat, yFlat, zVal, zVal, 1 >>
                     ELSE << xFlat, yFlat, 0, zVal, 1 >>
                ELSE IF (k - 1) % 2 = 0
                     THEN << xFlat, yFlat, zVal >>
                     ELSE << xFlat, yFlat, 0 >> ]

\* The position attribute, one entry per vertex in vIndex order.  A flat mesh
\* holds <<x, y, z>>.  sin and cos have no exact values, so a vertex of a
\* curved mesh (curveAngle > 0) is held as the terms of its position,
\* <<a, y, s, c, m>>, standing for
\*     px = (radius + s) * sin(angle),  py = y,
\*     pz = (radius + c) * cos(angle) - m * radius
\* with angle = (a / totalWidth) * thetaTotal, a being xFlat: the top vertex
\* has s = c = zVal (rTop = radius + zVal), the bottom one s = c = 0
\* (rBot = radius), and both subtract the radius once.
Vertices(final, widthPx, heightPx, st) ==
    LET totalSegsX == TotalSegs(st.frameWidth, widthPx, st.width)
        totalSegsY == TotalSegs(st.frameWidth, heightPx, st.height)
    IN  [ k \in 1..(2 * (totalSegsX + 1) * (totalSegsY + 1)) |->
            LET g == (k - 1) \div 2
                y == g \div (totalSegsX + 1)
                x == g % (totalSegsX + 1)
                xFlat == XFlat(st, totalSegsX, x)
                yFlat == YFlat(st, totalSegsY, y)
                zVal == ZVal(final, widthPx, heightPx, st, x, y)
            IN  IF st.curveAngle > 0
                THEN IF (k - 1) % 2 = 0
                     THEN << xFlat, yFlat, zVal, zVal, 1 >>
                     ELSE << xFlat, yFlat, 0, 0, 1 >>
                ELSE IF (k - 1) % 2 = 0
                     THEN << xFlat, yFlat, zVal >>
                     ELSE << xFlat, yFlat, 0 >> ]

\* the two top-surface triangles of cell (x, y)
TopFaces(totalSegsX, x, y) ==
    LET t1 == topGrid(totalSegsX, y, x)
        t2 == topGrid(totalSegsX, y, x + 1)
        t3 == topGrid(totalSegsX, y + 1, x)
        t4 == topGrid(totalSegsX, y + 1, x + 1)
    IN  <<t1, t2, t4, t1, t4, t3>>

\* the bottom triangles of cell (x, y) wound as the top ones are
BottomFacesTopWinding(totalSegsX, x, y) ==
    LET b1 == botGrid(totalSegsX, y, x)
        b2 == botGrid(totalSegsX, y, x + 1)
        b3 == botGrid(totalSegsX, y + 1, x)
        b4 == botGrid(totalSegsX, y + 1, x + 1)
    IN  << b1, b2, b4, b1, b4, b3 >>

\* the two bottom-surface triangles of cell (x, y)
BottomFaces(totalSegsX, x, y) ==
    LET b1 == botGrid(totalSegsX, y, x)
        b2 == botGrid(totalSegsX, y, x + 1)
        b3 == botGrid(totalSegsX, y + 1, x)
        b4 == botGrid(totalSegsX, y + 1, x + 1)
    IN  <<b1, b4, b2, b1, b3, b4>>

\* SideFaces with the right wall tested one column too late (x = totalSegsX)
SideFacesRightOffByOne(totalSegsX, totalSegsY, x, y) ==
    LET t1 == topGrid(totalSegsX, y, x)
        t2 == topGrid(totalSegsX, y, x + 1)
        t3 == topGrid(totalSegsX, y + 1, x)
        t4 == topGrid(totalSegsX, y + 1, x + 1)
        b1 == botGrid(totalSegsX, y, x)
        b2 == botGrid(totalSegsX, y, x + 1)
        b3 == botGrid(totalSegsX, y + 1, x)
        b4 == botGrid(totalSegsX, y + 1, x + 1)
    IN     (IF x = 0 THEN <<b1, t1, t3, b1, t3, b3>> ELSE <<>>)
        \o (IF x = totalSegsX THEN <<b2, t4, t2, b2, b4, t4>> ELSE <<>>)
        \o (IF y = 0 THEN <<b1, t2, t1, b1, b2, t2>> ELSE <<>>)
        \o (IF y = totalSegsY - 1 THEN <<b3, t3, t4, b3, t4, b4>> ELSE <<>>)

\* SideFaces with the four tests chained by else: a corner cell gets one wall
SideFacesElseIf(totalSegsX, totalSegsY, x, y) ==
    LET t1 == topGrid(totalSegsX, y, x)
        t2 == topGrid(totalSegsX, y, x + 1)
        t3 == topGrid(totalSegsX, y + 1, x)
        t4 == topGrid(totalSegsX, y + 1, x + 1)
        b1 == botGrid(totalSegsX, y, x)
        b2 == botGrid(totalSegsX, y, x + 1)
        b3 == botGrid(totalSegsX, y + 1, x)
        b4 == botGrid(totalSegsX, y + 1, x + 1)
    IN  IF x = 0 THEN <<b1, t1, t3, b1, t3, b3>>
        ELSE IF x = totalSegsX - 1 THEN <<b2, t4, t2, b2, b4, t4>>
        ELSE IF y = 0 THEN <<b1, t2, t1, b1, b2, t2>>
        ELSE IF y = totalSegsY - 1 THEN <<b3, t3, t4, b3, t4, b4>>
        ELSE <<>>

\* the wall triangles of cell (x, y)
SideFaces(totalSegsX, totalSegsY, x, y) ==
    LET t1 == topGrid(totalSegsX, y, x)
        t2 == topGrid(totalSegsX, y, x + 1)
        t3 == topGrid(totalSegsX, y + 1, x)
        t4 == topGrid(totalSegsX, y + 1, x + 1)
        b1 == botGrid(totalSegsX, y, x)
        b2 == botGrid(totalSegsX, y, x + 1)
        b3 == botGrid(totalSegsX, y + 1, x)
        b4 == botGrid(totalSegsX, y + 1, x + 1)
    IN     (IF x = 0 THEN <<b1, t1, t3, b1, t3, b3>> ELSE <<>>)
        \o (IF x = totalSegsX - 1 THEN <<b2, t4, t2, b2, b4, t4>> ELSE <<>>)
        \o (IF y = 0 THEN <<b1, t2, t1, b1, b2, t2>> ELSE <<>>)
        \o (IF y = totalSegsY - 1 THEN <<b3, t3, t4, b3, t4, b4>> ELSE <<>>)

\* everything one iteration of the face loop pushes
CellFaces(totalSegsX, totalSegsY, x, y) ==
       TopFaces(totalSegsX, x, y)
    \o BottomFaces(totalSegsX, x, y)
    \o SideFaces(totalSegsX, totalSegsY, x, y)

\* indices after the first n iterations of the face loop (y outer, x inner)
RECURSIVE FacesUpTo(_, _, _)
FacesUpTo(n, totalSegsX, totalSegsY) ==
    IF n = 0 THEN <<>>
    ELSE FacesUpTo(n - 1, totalSegsX, totalSegsY)
         \o CellFaces(totalSegsX, totalSegsY, (n - 1) % totalSegsX, (n - 1) \div totalSegsX)

Indices(widthPx, heightPx, st) ==
    LET totalSegsX == TotalSegs(st.frameWidth, widthPx, st.width)
        totalSegsY == TotalSegs(st.frameWidth, heightPx, st.height)
    IN  FacesUpTo(totalSegsX * totalSegsY, totalSegsX, totalSegsY)

\* new Array((totalSegsY + 1) * (totalSegsX + 1)) throws a RangeError: the
\* length is not finite
GridLengthInvalid(widthPx, heightPx, st) ==
    \/ TotalSegs(st.frameWidth, widthPx, st.width) = Infinity
    \/ TotalSegs(st.frameWidth, heightPx, st.height) = Infinity

\* The position attribute and the index of the returned geometry (its vertex
\* normals, which the serializer does not read, are left out), when the grid
\* arrays can be allocated.
generateMesh(hm, widthPx, heightPx, st) ==
    [ vertices |-> Vertices(FinalHeightmap(hm, widthPx, heightPx, st), widthPx, heightPx, st),
      indices  |-> Indices(widthPx, heightPx, st),
      curved   |-> st.curveAngle > 0 ]

(***************************************************************************)
(* STLExporter.parse                                                       *)
(***************************************************************************)
\* Uint32LE with the bytes in big-endian order (littleEndian = false)
Uint32BE(n) ==
    << (n \div 16777216) % 256, (n \div 65536) % 256, (n \div 256) % 256, n % 256 >>

\* the four bytes view.setUint32(80, n, true) writes, least significant first
Uint32LE(n) ==
    << n % 256, (n \div 256) % 256, (n \div 65536) % 256, (n \div 16777216) % 256 >>

\* The sign (-1, 0, 1) of a * b - c * d, computed without leaving TLC's 32-bit
\* integers: b and d (differences of z) are split into 16-bit halves.
SignDet(a, b, c, d) ==
    LET K  == 256 * 256
        hi == a * (b \div K) - c * (d \div K)
        lo == a * (b % K) - c * (d % K)
        H  == hi + (lo \div K)
        L  == lo % K
    IN  IF H > 0 THEN 1 ELSE IF H < 0 THEN 0 - 1 ELSE IF L > 0 THEN 1 ELSE 0

\* FacetNormal crossing cb with the corner A instead of the edge ab = A - B
FacetNormalCornerA(vA, vB, vC) ==
    LET cb == << vC[1] - vB[1], vC[2] - vB[2], vC[3] - vB[3] >>
    IN  << SignDet(cb[2], vA[3], vA[2], cb[3]),
           SignDet(vA[1], cb[3], cb[1], vA[3]),
           SignDet(cb[1], vA[2], vA[1], cb[2]) >>

\* cb.cross(ab).normalize() with cb = C - B and ab = A - B.  normalize()
\* divides by length() || 1: it keeps the direction of the cross product and
\* leaves a zero cross product as it is.  The model keeps the sign of each
\* component (<<0, 0, 0>> exactly when the cross product is zero).
FacetNormal(vA, vB, vC) ==
    LET cb == << vC[1] - vB[1], vC[2] - vB[2], vC[3] - vB[3] >>
        ab == << vA[1] - vB[1], vA[2] - vB[2], vA[3] - vB[3] >>
    IN  << SignDet(cb[2], ab[3], ab[2], cb[3]),
           SignDet(ab[1], cb[3], cb[1], ab[3]),
           SignDet(cb[1], ab[2], ab[1], cb[2]) >>

\* the running write offset when the loop reaches the triangle starting at
\* (1-based) position i of the index: 84, advanced per earlier triangle by the
\* twelve 4-byte floats and the 2-byte attribute
OffsetOf(i) == 84 + ((i - 1) \div 3) * (12 * 4 + 2)

\* Facet writing the corners in the order A, C, B
FacetSwapped(geo, i) ==
    LET vA == geo.vertices[geo.indices[i] + 1]
        vB == geo.vertices[geo.indices[i + 1] + 1]
        vC == geo.vertices[geo.indices[i + 2] + 1]
        offset == OffsetOf(i)
    IN  [ normal |-> IF geo.curved \/ NaN \in {vA[3], vB[3], vC[3]} THEN <<>>
                     ELSE FacetNormal(vA, vB, vC),
          v1 |-> vA, v2 |-> vC, v3 |-> vB, attribute |-> 0,
          at |-> [ normal |-> offset, v1 |-> offset + 12, v2 |-> offset + 24,
                   v3 |-> offset + 36, attribute |-> offset + 48 ] ]

\* One 50-byte record: the facet normal, the three corners in index order and
\* the attribute byte count, with the byte offset each is written at.  The
\* values are kept as numbers, not as their four little-endian bytes.  The
\* normal of a curved mesh, which needs the sines and cosines of the vertex
\* angles, and the normal of a triangle with a NaN corner are left out (<<>>).
Facet(geo, i) ==
    LET vA == geo.vertices[geo.indices[i] + 1]
        vB == geo.vertices[geo.indices[i + 1] + 1]
        vC == geo.vertices[geo.indices[i + 2] + 1]
        offset == OffsetOf(i)
    IN  [ normal |-> IF geo.curved \/ NaN \in {vA[3], vB[3], vC[3]} THEN <<>>
                     ELSE FacetNormal(vA, vB, vC),
          v1 |-> vA, v2 |-> vB, v3 |-> vC, attribute |-> 0,
          at |-> [ normal |-> offset, v1 |-> offset + 12, v2 |-> offset + 24,
                   v3 |-> offset + 36, attribute |-> offset + 48 ] ]

\* parse sizing the buffer by the vertex count (the division by 3 forgotten)
parseByVertexCount(geo) ==
    LET count == Len(geo.indices)
        triangleCount == count \div 3
    IN  [ byteLength    |-> 84 + (count * 50),
          header        |-> [ k \in 1..80 |-> 0 ],
          triangleCount |-> Uint32LE(count),
          facets        |-> [ t \in 1..triangleCount |-> Facet(geo, 3 * (t - 1) + 1) ] ]

\* The returned ArrayBuffer: its length, the 80 header bytes (an ArrayBuffer is
\* created zeroed and parse writes none of them), the four bytes of the
\* triangle count at offset 80, and the records.
parse(geo) ==
    LET count == Len(geo.indices)
        triangleCount == count \div 3
    IN  [ byteLength    |-> 84 + (triangleCount * 50),
          header        |-> [ k \in 1..80 |-> 0 ],
          triangleCount |-> Uint32LE(triangleCount),
          facets        |-> [ t \in 1..triangleCount |-> Facet(geo, 3 * (t - 1) + 1) ] ]

(***************************************************************************)
(* The pipeline: a source image, image settings and model settings are     *)
(* chosen, then the four stages run in the order updatePreview and the     *)
(* Export STL handler run them.                                            *)
(***************************************************************************)
\* what every run starts from: nothing processed yet
Unprocessed ==
    /\ canvas = NewCanvas
    /\ imageData = NoImage
    /\ imageDimensions = [ width |-> 0, height |-> 0 ]
    /\ heightmap = <<>>
    /\ geometry = NoGeometry
    /\ buffer = NoBuffer
    /\ error = "none"
    /\ timer = NoTimer
    /\ uploads = <<>>

Init ==
    /\ pc = "source"
    /\ imageSettings = NoEffects
    /\ \/ originalImage \in Images /\ settings \in ModelSettingsSet
       \/ originalImage = ExampleImage /\ settings \in {ExampleSettings, FramedExampleSettings}
    /\ Unprocessed

\* processImage(img, settings, modelSettings.resolution), then
\* setImageDimensions.  getImageData throws an IndexSizeError when the width
\* or the height asked for is 0; the canvas has been resized by then.
ProcessImage ==
    /\ pc = "source"
    /\ LET size == WorkingSize(originalImage.width, originalImage.height, settings.resolution)
       IN  IF size.width = 0 \/ size.height = 0
           THEN /\ canvas' = [ width |-> size.width, height |-> size.height,
                               filter |-> 0, data |-> <<>> ]
                /\ error' = "IndexSizeError"
                /\ pc' = "failed"
                /\ UNCHANGED <<imageData, imageDimensions>>
           ELSE /\ imageData' = processImage(originalImage, imageSettings, settings.resolution)
                /\ canvas' = [ width |-> size.width, height |-> size.height,
                               filter |-> imageSettings.blur, data |-> imageData'.data ]
                /\ imageDimensions' = [ width |-> size.width, height |-> size.height ]
                /\ pc' = "image"
                /\ UNCHANGED error
    /\ UNCHANGED <<originalImage, imageSettings, settings, heightmap, geometry, buffer>>
    /\ UNCHANGED <<timer, uploads>>

GenerateHeightmap ==
    /\ pc = "image"
    /\ heightmap' = generateHeightmap(imageData)
    /\ pc' = "heightmap"
    /\ UNCHANGED <<originalImage, imageSettings, canvas, imageData, imageDimensions,
                   settings, geometry, buffer, error, timer, uploads>>

GenerateMesh ==
    /\ pc = "heightmap"
    /\ IF GridLengthInvalid(imageDimensions.width, imageDimensions.height, settings)
       THEN /\ error' = "RangeError"
            /\ pc' = "failed"
            /\ UNCHANGED geometry
       ELSE /\ geometry' = generateMesh(heightmap, imageDimensions.width,
                                        imageDimensions.height, settings)
            /\ pc' = "mesh"
            /\ UNCHANGED error
    /\ UNCHANGED <<originalImage, imageSettings, canvas, imageData, imageDimensions,
                   settings, heightmap, buffer, timer, uploads>>

Parse ==
    /\ pc = "mesh"
    /\ buffer' = parse(geometry)
    /\ pc' = "stl"
    /\ UNCHANGED <<originalImage, imageSettings, canvas, imageData, imageDimensions,
                   settings, heightmap, geometry, error, timer, uploads>>

Next == ProcessImage \/ GenerateHeightmap \/ GenerateMesh \/ Parse

Spec == Init /\ [][Next]_vars

(***************************************************************************)
(* The filter runs: processImage and generateHeightmap over source images  *)
(* of every small size, the image settings of ImageSettingsSet and         *)
(* resolutions around the image sizes.                                     *)
(***************************************************************************)
InitFilter ==
    /\ pc = "source"
    /\ originalImage \in SourceImages
    /\ imageSettings \in ImageSettingsSet
    /\ settings \in { [DefaultModelSettings EXCEPT !.resolution = r] : r \in Resolutions }
    /\ Unprocessed

NextFilter == ProcessImage \/ GenerateHeightmap

SpecFilter == InitFilter /\ [][NextFilter]_vars

(***************************************************************************)
(* Direct calls: generateMesh on any heightmap, pixel dimensions and       *)
(* settings, whether they fit each other or not, and parse on geometries   *)
(* that generateMesh does not build.                                       *)
(***************************************************************************)
InitCalls ==
    /\ originalImage = NoImage
    /\ imageSettings = NoEffects
    /\ canvas = NewCanvas
    /\ imageData = NoImage
    /\ buffer = NoBuffer
    /\ error = "none"
    /\ timer = NoTimer
    /\ uploads = <<>>
    /\ \/ /\ pc = "heightmap"
          /\ heightmap \in CallHeightmaps
          /\ imageDimensions \in [ width : 0..MaxPx, height : 0..MaxPx ]
          /\ settings \in CallSettings
          /\ geometry = NoGeometry
       \/ /\ pc = "mesh"
          /\ heightmap = <<>>
          /\ imageDimensions = [ width |-> 0, height |-> 0 ]
          /\ settings = DefaultModelSettings
          /\ geometry \in { EmptyMesh, DegenerateMesh }

NextCalls == GenerateMesh \/ Parse

SpecCalls == InitCalls /\ [][NextCalls]_vars

(***************************************************************************)
(* Repeated calls: the four core functions called again and again with     *)
(* other arguments on the one ImageProcessor and its canvas.  The caller    *)
(* still holds the heightmap, geometry and buffer of the earlier run.       *)
(***************************************************************************)
\* images of several sizes with translucent and transparent pixels, image
\* settings with and without blur, and resolutions above and below the sizes
RepeatImages ==
    { PatternImage(2, 2, 0, 1), PatternImage(2, 2, 2, 1), PatternImage(1, 2, 3, 1),
      PatternImage(2, 1, 4, 3), PatternImage(MaxSrc, 1, 1, 1) }

RepeatImageSettings ==
    { NoEffects,
      [NoEffects EXCEPT !.invert = TRUE],
      [NoEffects EXCEPT !.blur = 1],
      [NoEffects EXCEPT !.grayscale = TRUE, !.noiseReduction = 3, !.sharpen = 5, !.blur = 2] }

RepeatResolutions == { 2, 1024 }

InitRepeat ==
    /\ pc = "source"
    /\ originalImage \in RepeatImages
    /\ imageSettings \in RepeatImageSettings
    /\ settings \in { [DefaultModelSettings EXCEPT !.resolution = r] : r \in RepeatResolutions }
    /\ Unprocessed

\* a later processImage(img, st, resolution) on the same ImageProcessor
ProcessImageAgain ==
    /\ pc \in {"stl", "failed"}
    /\ \E img \in RepeatImages, st \in RepeatImageSettings, r \in RepeatResolutions :
          LET call == processImageOnCanvas(canvas, img, st, r)
          IN  /\ originalImage' = img
              /\ imageSettings' = st
              /\ settings' = [settings EXCEPT !.resolution = r]
              /\ canvas' = call.canvas
              /\ IF call.threw
                 THEN /\ error' = "IndexSizeError"
                      /\ pc' = "failed"
                      /\ UNCHANGED <<imageData, imageDimensions>>
                 ELSE /\ imageData' = call.result
                      /\ imageDimensions' = [ width  |-> call.result.width,
                                              height |-> call.result.height ]
                      /\ error' = "none"
                      /\ pc' = "image"
    /\ UNCHANGED <<heightmap, geometry, buffer, timer, uploads>>

NextRepeat ==
    ProcessImage \/ GenerateHeightmap \/ GenerateMesh \/ Parse \/ ProcessImageAgain

SpecRepeat == InitRepeat /\ [][NextRepeat]_vars

(***************************************************************************)
(* The 3D app: the store of AppProvider and the handlers of Controls.  The *)
(* user selects files, moves image-setting and model-setting controls;     *)
(* loads finish in any order; the debounce timeout fires.  State updates    *)
(* made in one handler are rendered together (the components are written    *)
(* against the types of React 19, where updates are batched everywhere),    *)
(* and the effect of Controls runs with the render that changed its         *)
(* dependencies.                                                           *)
(***************************************************************************)
MaxUploads == 2     \* handleFileUpload calls per run

\* the files the user picks from, named by the image they decode to: a 2 x 2
\* one, and a MaxSrc x 1 one that processImage fails on at resolution 1
AppFiles == { PatternImage(2, 2, 0, 1), PatternImage(MaxSrc, 1, 1, 1) }

AppImageSettings == { DefaultImageSettings, [DefaultImageSettings EXCEPT !.invert = TRUE] }

AppResolutions == { 1, 1024 }

AppDepths == { 5, 3 }

\* StoreUpdates with setImageDimensions given the size of the image instead
\* of the size of the ImageData
StoreUpdatesNaturalSize(call, img) ==
    [ canvas |-> call.canvas,
      threw  |-> call.threw,
      imageData |-> call.result,
      imageDimensions |-> [ width |-> img.width, height |-> img.height ],
      heightmap |-> IF call.threw THEN <<>> ELSE generateHeightmap(call.result) ]

\* updatePreview after processImage (call is what it did): what is handed
\* to setProcessedImage, setImageDimensions and setHeightmap
StoreUpdates(call, img) ==
    [ canvas |-> call.canvas,
      threw  |-> call.threw,
      imageData |-> call.result,
      imageDimensions |-> [ width |-> call.result.width, height |-> call.result.height ],
      heightmap |-> IF call.threw THEN <<>> ELSE generateHeightmap(call.result) ]

\* updatePreview(img, settings) of a render whose modelSettings.resolution
\* is resolution, on the canvas cv of imageProcessor
updatePreview(cv, img, st, resolution) ==
    StoreUpdates(processImageOnCanvas(cv, img, st, resolution), img)

\* the canvases imageProcessor is left with by its first updatePreview
AppCanvases ==
    { NewCanvas } \cup { updatePreview(NewCanvas, img, st, r).canvas :
                            img \in AppFiles, st \in AppImageSettings, r \in AppResolutions }

\* updatePreview tabulated over those canvases and the arguments of the app
\* (a call on any other canvas has no entry, and stops the check)
PreviewRuns ==
    [ cv \in AppCanvases, img \in AppFiles, st \in AppImageSettings, r \in AppResolutions |->
        updatePreview(cv, img, st, r) ]

\* the setters of updatePreview applied to the store: none is reached when
\* processImage throws
Commit(run) ==
    /\ canvas' = run.canvas
    /\ IF run.threw
       THEN /\ error' = "IndexSizeError"
            /\ UNCHANGED <<imageData, imageDimensions, heightmap>>
       ELSE /\ error' = "none"
            /\ imageData' = run.imageData
            /\ imageDimensions' = run.imageDimensions
            /\ heightmap' = run.heightmap

\* the store and the canvas after updatePreview(img, st)
Preview(img, st, resolution) == Commit(PreviewRuns[canvas, img, st, resolution])

\* the effect on [imageSettings, modelSettings.resolution, originalImage]:
\* its cleanup clears the timeout of the previous run, and it sets one,
\* closing over the values of this render, when there is an image
Debounce(img, st, resolution) ==
    IF img # NoImage
    THEN [ pending |-> TRUE, img |-> img, st |-> st, resolution |-> resolution ]
    ELSE NoTimer

InitApp ==
    /\ pc = "app"
    /\ originalImage = NoImage
    /\ imageSettings = DefaultImageSettings
    /\ settings = DefaultModelSettings
    /\ Unprocessed

\* handleFileUpload up to its await: loadImage(file) is started; the rest
\* of the call will run with the imageSettings and modelSettings of now
SelectFile ==
    /\ pc = "app"
    /\ Len(uploads) < MaxUploads
    /\ \E file \in AppFiles :
          uploads' = Append(uploads, [ file |-> file, state |-> "pending",
                                       st |-> imageSettings,
                                       resolution |-> settings.resolution ])
    /\ UNCHANGED <<pc, originalImage, imageSettings, canvas, imageData, imageDimensions,
                   settings, heightmap, geometry, buffer, error, timer>>

\* img.onload of any pending load, then handleFileUpload after its await:
\* setOriginalImage(img); updatePreview(img, imageSettings) with what the
\* call closed over; the effect runs for the new originalImage
LoadCompletes ==
    /\ pc = "app"
    /\ \E i \in 1..Len(uploads) :
          /\ uploads[i].state = "pending"
          /\ uploads' = [uploads EXCEPT ![i] = [ file |-> uploads[i].file,
                                                 state |-> "fulfilled",
                                                 st |-> NoEffects, resolution |-> 0 ]]
          /\ originalImage' = uploads[i].file
          /\ Preview(uploads[i].file, uploads[i].st, uploads[i].resolution)
          /\ timer' = Debounce(uploads[i].file, imageSettings, settings.resolution)
    /\ UNCHANGED <<pc, imageSettings, settings, geometry, buffer>>

\* img.onerror of any pending load: handleFileUpload logs the error
LoadFails ==
    /\ pc = "app"
    /\ \E i \in 1..Len(uploads) :
          /\ uploads[i].state = "pending"
          /\ uploads' = [uploads EXCEPT ![i] = [ file |-> uploads[i].file,
                                                 state |-> "rejected",
                                                 st |-> NoEffects, resolution |-> 0 ]]
    /\ UNCHANGED <<pc, originalImage, imageSettings, canvas, imageData, imageDimensions,
                   settings, heightmap, geometry, buffer, error, timer>>

\* ChangeImageSettings leaving a pending timeout in place
ChangeImageSettingsNoCancel ==
    /\ pc = "app"
    /\ \E st \in AppImageSettings \ {imageSettings} :
          /\ imageSettings' = st
          /\ timer' = IF timer.pending THEN timer
                      ELSE Debounce(originalImage, st, settings.resolution)
    /\ UNCHANGED <<pc, originalImage, canvas, imageData, imageDimensions, settings,
                   heightmap, geometry, buffer, error, uploads>>

\* handleImageSettingChange: updateImageSettings({key: value}); the effect
\* runs for the new imageSettings
ChangeImageSettings ==
    /\ pc = "app"
    /\ \E st \in AppImageSettings \ {imageSettings} :
          /\ imageSettings' = st
          /\ timer' = Debounce(originalImage, st, settings.resolution)
    /\ UNCHANGED <<pc, originalImage, canvas, imageData, imageDimensions, settings,
                   heightmap, geometry, buffer, error, uploads>>

\* the resolution select: updateModelSettings({resolution}); the effect
\* runs for the new modelSettings.resolution
ChangeResolution ==
    /\ pc = "app"
    /\ \E r \in AppResolutions \ {settings.resolution} :
          /\ settings' = [settings EXCEPT !.resolution = r]
          /\ timer' = Debounce(originalImage, imageSettings, r)
    /\ UNCHANGED <<pc, originalImage, imageSettings, canvas, imageData, imageDimensions,
                   heightmap, geometry, buffer, error, uploads>>

\* any other model control (here depth): updateModelSettings; the
\* dependencies of the effect are unchanged, so it does not run
ChangeModelSetting ==
    /\ pc = "app"
    /\ \E d \in AppDepths \ {settings.depth} :
          settings' = [settings EXCEPT !.depth = d]
    /\ UNCHANGED <<pc, originalImage, imageSettings, canvas, imageData, imageDimensions,
                   heightmap, geometry, buffer, error, timer, uploads>>

\* the timeout fires: updatePreview(originalImage, imageSettings) of the
\* render that set it
TimerFires ==
    /\ pc = "app"
    /\ timer.pending
    /\ Preview(timer.img, timer.st, timer.resolution)
    /\ timer' = NoTimer
    /\ UNCHANGED <<pc, originalImage, imageSettings, settings, geometry, buffer, uploads>>

NextApp ==
    \/ SelectFile \/ LoadCompletes \/ LoadFails
    \/ ChangeImageSettings \/ ChangeResolution \/ ChangeModelSetting
    \/ TimerFires

\* a timeout that is not cleared fires after its 300 ms
SpecApp == InitApp /\ [][NextApp]_vars /\ WF_vars(TimerFires)

(***************************************************************************)
(* Properties.                                                             *)
(***************************************************************************)
HeightmapBuilt == pc \in {"heightmap", "mesh", "stl"}
\* generateMesh has just returned (parse leaves the geometry as it is)
MeshBuilt == pc = "mesh"
Flat == settings.curveAngle = 0
NoFrame == settings.frameWidth = 0

imgW == imageDimensions.width
imgH == imageDimensions.height

\* number of triangles of the mesh, and the t-th index triple (t from 1)
TriangleCount == Len(geometry.indices) \div 3
Triangle(t) ==
    << geometry.indices[3 * t - 2], geometry.indices[3 * t - 1], geometry.indices[3 * t] >>
Corners(t) == { Triangle(t)[1], Triangle(t)[2], Triangle(t)[3] }

\* top vertices have even indices, bottom vertices odd ones
IsTopTriangle(t) == \A v \in Corners(t) : v % 2 = 0
IsBottomTriangle(t) == \A v \in Corners(t) : v % 2 = 1
IsWallTriangle(t) == ~IsTopTriangle(t) /\ ~IsBottomTriangle(t)

\* the triangles each vertex is a corner of
Incident ==
    [ v \in 0..(Len(geometry.vertices) - 1) |->
        { t \in 1..TriangleCount : v \in Corners(t) } ]

\* C1: the index list is a closed 2-manifold: the two ends of every edge of
\* every triangle are distinct vertices, and exactly two triangles (top,
\* bottom and wall triangles together) have both of them as corners.
C1_ClosedManifold ==
    MeshBuilt =>
        LET inc == Incident
        IN  /\ inc = inc      \* tabulates inc, which TLC would otherwise recompute per use
            /\ \A t \in 1..TriangleCount :
                \A e \in { <<1, 2>>, <<2, 3>>, <<3, 1>> } :
                    LET u == Triangle(t)[e[1]]
                        v == Triangle(t)[e[2]]
                    IN  u # v /\ Cardinality(inc[u] \cap inc[v]) = 2

\* a framed mesh over an image that is not square has been built
C1_Witness ==
    /\ pc = "mesh"
    /\ settings.frameWidth = 1 /\ settings.width = 4
    /\ imgW = 2 /\ imgH = 1
    /\ TriangleCount > 0

frameSegsX == FrameSegs(settings.frameWidth, imgW, settings.width)
frameSegsY == FrameSegs(settings.frameWidth, imgH, settings.height)
totalSegsX == TotalSegs(settings.frameWidth, imgW, settings.width)
totalSegsY == TotalSegs(settings.frameWidth, imgH, settings.height)
finalHeightmap == FinalHeightmap(heightmap, imgW, imgH, settings)

\* the position of the top and of the bottom vertex of grid point (x, y)
TopVertex(x, y) == geometry.vertices[topGrid(totalSegsX, y, x) + 1]
BottomVertex(x, y) == geometry.vertices[botGrid(totalSegsX, y, x) + 1]

\* baseHeight + frameDepth, and baseHeight + h * depth for the value h held
\* as hv, in the units of z
FrameHeight == (settings.baseHeight + settings.frameDepth) * FinalScale(settings)
ReliefHeight(hv) == settings.baseHeight * FinalScale(settings) + hv * settings.depth

Min(a, b) == IF a < b THEN a ELSE b

\* C3 as stated: with no frame and no curvature every top vertex has
\* Z = baseHeight + h * depth for a value h of the (smoothed) heightmap, so
\* none is at the frame height for being in the frame, and every bottom
\* vertex has Z = 0.
C3_Claim ==
    (MeshBuilt /\ Flat /\ NoFrame) =>
        \A k \in 1..Len(geometry.vertices) :
            IF (k - 1) % 2 = 0
            THEN \E i \in 1..Len(finalHeightmap) :
                     geometry.vertices[k][3] = ReliefHeight(finalHeightmap[i])
            ELSE geometry.vertices[k][3] = 0

\* the segment counts of the built mesh, read off its vertices: the number
\* of distinct x (y) coordinates is totalSegsX + 1 (totalSegsY + 1)
MeshSegsX ==
    Cardinality({ geometry.vertices[k][1] : k \in 1..Len(geometry.vertices) }) - 1
MeshSegsY ==
    Cardinality({ geometry.vertices[k][2] : k \in 1..Len(geometry.vertices) }) - 1

\* round(frameWidth * px / mm), raised to 1 only when frameWidth > 0
ClaimedFrameSegs(frameWidth, px, mm) ==
    IF frameWidth > 0
    THEN (IF Round(frameWidth * px, mm) < 1 THEN 1 ELSE Round(frameWidth * px, mm))
    ELSE 0

\* C4 as stated: the frame segment count per axis is round(frameWidth *
\* pxPerMm), raised to 1 only when frameWidth > 0 and 0 without a frame, so
\* the mesh has image pixels + 2 * that many segments per axis.
C4_Claim ==
    MeshBuilt =>
        /\ MeshSegsX = imgW + 2 * ClaimedFrameSegs(settings.frameWidth, imgW, settings.width)
        /\ MeshSegsY = imgH + 2 * ClaimedFrameSegs(settings.frameWidth, imgH, settings.height)

IsExample == imageData = ExampleImage /\ settings = ExampleSettings

\* what the example's claim and its amendment share: the heightmap is all 1.0,
\* every top vertex is at Z = 7 and every bottom vertex at Z = 0
ExampleHeights ==
    /\ Len(heightmap) = 16
    /\ \A i \in 1..Len(heightmap) : heightmap[i] = HScale
    /\ \A k \in 1..Len(geometry.vertices) :
           geometry.vertices[k][3] = (IF (k - 1) % 2 = 0 THEN 7 * HScale ELSE 0)

C6_Original ==
    (MeshBuilt /\ settings.frameWidth > 0) =>
        \A x \in 0..totalSegsX, y \in 0..totalSegsY :
            LET imgX == x - frameSegsX
                imgY == y - frameSegsY
            IN  (imgX <= 0 \/ imgX >= imgW \/ imgY <= 0 \/ imgY >= imgH)
                    => TopVertex(x, y)[3] = FrameHeight

\* C6 amended: with a frame, every grid vertex strictly outside the image
\* rectangle (image-relative column < 0 or > widthPx, or row < 0 or >
\* heightPx) has the top height baseHeight + frameDepth, and a vertex exactly
\* on the seam has the relief height of the nearest pixel.
C6_Amended ==
    (MeshBuilt /\ settings.frameWidth > 0) =>
        \A x \in 0..totalSegsX, y \in 0..totalSegsY :
            LET imgX == x - frameSegsX
                imgY == y - frameSegsY
                outside == imgX < 0 \/ imgX > imgW \/ imgY < 0 \/ imgY > imgH
                seam == ~outside /\ (imgX \in {0, imgW} \/ imgY \in {0, imgH})
            IN  /\ outside => TopVertex(x, y)[3] = FrameHeight
                /\ seam => TopVertex(x, y)[3] =
                       ReliefHeight(finalHeightmap[Min(imgY, imgH - 1) * imgW
                                                   + Min(imgX, imgW - 1) + 1])

\* a framed mesh with a seam vertex that is not at the frame height
C6_Witness ==
    /\ pc = "mesh"
    /\ settings.frameWidth > 0
    /\ TopVertex(frameSegsX + imgW, frameSegsY)[3] # FrameHeight
    /\ TopVertex(0, 0)[3] = FrameHeight

\* C7: for every grid vertex classified as inside the image area, the pixel
\* coordinates read are the image-relative ones clamped to [0, widthPx-1] x
\* [0, heightPx-1], the index read lies in [0, widthPx*heightPx-1], and the
\* vertex height is baseHeight + heightmap[index] * depth.
C7_SampleInBounds ==
    MeshBuilt =>
        \A x \in 0..totalSegsX, y \in 0..totalSegsY :
            LET imgX == x - frameSegsX
                imgY == y - frameSegsY
                index == SampleIndex(imgX, imgY, imgW, imgH)
            IN  InImageArea(imgX, imgY, imgW, imgH) =>
                    /\ \E sx \in 0..(imgW - 1), sy \in 0..(imgH - 1) :
                           /\ sx = Min(imgX, imgW - 1)
                           /\ sy = Min(imgY, imgH - 1)
                           /\ index = sy * imgW + sx
                    /\ index >= 0 /\ index <= imgW * imgH - 1
                    /\ TopVertex(x, y)[3] = ReliefHeight(finalHeightmap[index + 1])

\* a mesh over a 2 x 2 image whose values differ, where the vertex at the far
\* corner of the image area (both coordinates clamped) has been given a height
C7_Witness ==
    /\ pc = "mesh"
    /\ imgW = 2 /\ imgH = 2
    /\ heightmap[4] # heightmap[1] /\ heightmap[4] # heightmap[2]
    /\ heightmap[4] # heightmap[3]
    /\ TopVertex(frameSegsX + 2, frameSegsY + 2)[3] = ReliefHeight(finalHeightmap[4])

\* the vertices at the corners of cell (x, y)
CellCorners(x, y) ==
    { topGrid(totalSegsX, y, x), topGrid(totalSegsX, y, x + 1),
      topGrid(totalSegsX, y + 1, x), topGrid(totalSegsX, y + 1, x + 1),
      botGrid(totalSegsX, y, x), botGrid(totalSegsX, y, x + 1),
      botGrid(totalSegsX, y + 1, x), botGrid(totalSegsX, y + 1, x + 1) }

\* the triangles of the mesh spanned by corners of cell (x, y), inc being
\* the table Incident
CellTriangles(inc, x, y) ==
    { t \in UNION { inc[v] : v \in CellCorners(x, y) } :
        Corners(t) \subseteq CellCorners(x, y) }

\* the number of grid borders cell (x, y) touches
BordersTouched(x, y) ==
      (IF x = 0 THEN 1 ELSE 0) + (IF x = totalSegsX - 1 THEN 1 ELSE 0)
    + (IF y = 0 THEN 1 ELSE 0) + (IF y = totalSegsY - 1 THEN 1 ELSE 0)

\* C8: every cell has 2 top and 2 bottom triangles and 2 wall triangles per
\* grid border it touches (a corner cell for both of its borders); the mesh
\* has 4*totalSegsX*totalSegsY + 4*(totalSegsX+totalSegsY) triangles; the top
\* and the bottom grid have (totalSegsX+1)*(totalSegsY+1) vertices each, and
\* the two vertices of a (row, col) lie above each other.
C8_CellTriangles ==
    MeshBuilt =>
        LET inc == Incident
        IN  /\ inc = inc      \* tabulates inc
            /\ \A x \in 0..(totalSegsX - 1), y \in 0..(totalSegsY - 1) :
                   LET cell == CellTriangles(inc, x, y)
                   IN  /\ Cardinality({ t \in cell : IsTopTriangle(t) }) = 2
                       /\ Cardinality({ t \in cell : IsBottomTriangle(t) }) = 2
                       /\ Cardinality({ t \in cell : IsWallTriangle(t) })
                              = 2 * BordersTouched(x, y)
            /\ TriangleCount = 4 * totalSegsX * totalSegsY + 4 * (totalSegsX + totalSegsY)
            /\ Len(geometry.indices) = 3 * TriangleCount
            /\ Len(geometry.vertices) = 2 * (totalSegsX + 1) * (totalSegsY + 1)
            /\ \A x \in 0..totalSegsX, y \in 0..totalSegsY :
                   /\ TopVertex(x, y)[1] = BottomVertex(x, y)[1]
                   /\ TopVertex(x, y)[2] = BottomVertex(x, y)[2]
            /\ Cardinality({ << TopVertex(x, y)[1], TopVertex(x, y)[2] >> :
                                x \in 0..totalSegsX, y \in 0..totalSegsY })
                   = (totalSegsX + 1) * (totalSegsY + 1)

\* a mesh whose grid is not square and has corner cells, border cells and
\* inner cells
C8_Witness ==
    /\ pc = "mesh"
    /\ totalSegsX # totalSegsY
    /\ totalSegsX >= 3 /\ totalSegsY >= 3
    /\ Cardinality(CellTriangles(Incident, 0, 0)) = 8
    /\ Cardinality(CellTriangles(Incident, 1, 0)) = 6
    /\ Cardinality(CellTriangles(Incident, 1, 1)) = 4

\* C9 as stated: in the flat case the facet normal (C-B) x (A-B) of every
\* top-surface triangle has a positive Z component and that of every
\* bottom-surface triangle a negative one.
C9_Claim ==
    (pc = "stl" /\ Flat) =>
        \A t \in 1..TriangleCount :
            /\ IsTopTriangle(t) => buffer.facets[t].normal[3] = 1
            /\ IsBottomTriangle(t) => buffer.facets[t].normal[3] = 0 - 1

\* C10: a pixel whose alpha is below 10 gets height exactly 0 whatever its
\* colour; any other pixel gets (0.299 R + 0.587 G + 0.114 B) / 255, which in
\* units of 1/(255 * 1000) is 299 R + 587 G + 114 B.
C10_AlphaThreshold ==
    HeightmapBuilt =>
        \A i \in 0..(imgW * imgH - 1) :
            LET R == imageData.data[4 * i + 1]
                G == imageData.data[4 * i + 2]
                B == imageData.data[4 * i + 3]
                A == imageData.data[4 * i + 4]
            IN  /\ i + 1 \in DOMAIN heightmap
                /\ A < 10 => heightmap[i + 1] = 0
                /\ A >= 10 => heightmap[i + 1] = 299 * R + 587 * G + 114 * B

\* the heightmap of an image holding a coloured pixel of alpha 9 and a
\* coloured pixel of alpha 10 has been extracted
C10_Witness ==
    /\ pc = "heightmap"
    /\ \E i \in 0..(imgW * imgH - 1) :
           imageData.data[4 * i + 4] = 9 /\ imageData.data[4 * i + 1] = 255
    /\ \E i \in 0..(imgW * imgH - 1) :
           imageData.data[4 * i + 4] = 10 /\ heightmap[i + 1] > 0

\* C11: the heightmap holds exactly width * height values, the value at
\* position y * width + x being the one of the pixel in row y, column x (0 if
\* transparent, its luminance otherwise), and every value lies in [0, 1],
\* that is in 0..HScale in units of 1/HScale.
C11_HeightmapRange ==
    HeightmapBuilt =>
        /\ Len(heightmap) = imageData.width * imageData.height
        /\ \A x \in 0..(imageData.width - 1), y \in 0..(imageData.height - 1) :
               LET p == y * imageData.width + x
                   v == heightmap[p + 1]
               IN  /\ v >= 0 /\ v <= HScale
                   /\ v \in { 0, 299 * imageData.data[4 * p + 1]
                                  + 587 * imageData.data[4 * p + 2]
                                  + 114 * imageData.data[4 * p + 3] }

\* the heightmap of a 2 x 2 image has been extracted, it holds a 1.0 and a
\* 0.0, and the end of its first row differs from the start of its second
C11_Witness ==
    /\ pc = "heightmap"
    /\ imageData.width = 2 /\ imageData.height = 2
    /\ \E i \in 1..4 : heightmap[i] = HScale
    /\ \E i \in 1..4 : heightmap[i] = 0
    /\ heightmap[2] # heightmap[3]

\* the count read back from bytes 80..83 of the buffer as a little-endian
\* unsigned 32-bit integer
HeaderCount ==
      buffer.triangleCount[1] + buffer.triangleCount[2] * 256
    + buffer.triangleCount[3] * 65536 + buffer.triangleCount[4] * 16777216

\* C14: for a mesh of n = index count / 3 triangles the buffer has exactly
\* 84 + 50 n bytes, bytes 80..83 read back little-endian give n, and the
\* length after the 84 header bytes divided by n is exactly 50.
C14_BufferLength ==
    (pc = "stl") =>
        LET n == Len(geometry.indices) \div 3
        IN  /\ Len(geometry.indices) = 3 * n
            /\ buffer.byteLength = 84 + 50 * n
            /\ Len(buffer.triangleCount) = 4
            /\ \A k \in 1..4 : buffer.triangleCount[k] \in 0..255
            /\ HeaderCount = n
            /\ n > 0 => /\ (buffer.byteLength - 84) % n = 0
                        /\ (buffer.byteLength - 84) \div n = 50

\* a mesh of more than 255 triangles has been serialized: its count fills
\* two bytes of the header
C14_Witness ==
    /\ pc = "stl"
    /\ TriangleCount > 255
    /\ buffer.triangleCount[2] > 0

\* C15: the i-th record (i from 0) starts at offset 84 + 50 i and holds the
\* normal at +0, the positions of the three vertices of the i-th index triple
\* in index order at +12, +24 and +36, and the attribute 0 at +48; there is
\* one record per triple, each with its own copy of the positions, the last
\* one ends at the end of the buffer, and the 80 header bytes are zero.
C15_RecordLayout ==
    (pc = "stl") =>
        /\ Len(buffer.facets) = TriangleCount
        /\ Len(buffer.header) = 80
        /\ \A k \in 1..80 : buffer.header[k] = 0
        /\ \A t \in 1..TriangleCount :
               LET f == buffer.facets[t]
                   start == 84 + 50 * (t - 1)
               IN  /\ f.at.normal = start
                   /\ f.at.v1 = start + 12 /\ f.v1 = geometry.vertices[Triangle(t)[1] + 1]
                   /\ f.at.v2 = start + 24 /\ f.v2 = geometry.vertices[Triangle(t)[2] + 1]
                   /\ f.at.v3 = start + 36 /\ f.v3 = geometry.vertices[Triangle(t)[3] + 1]
                   /\ f.at.attribute = start + 48 /\ f.attribute = 0
                   /\ start + 50 <= buffer.byteLength
        /\ TriangleCount > 0 =>
               buffer.facets[TriangleCount].at.attribute + 2 = buffer.byteLength

\* a mesh has been serialized whose first two triangles share two vertices,
\* written into both records, and whose corners are three distinct positions
C15_Witness ==
    /\ pc = "stl"
    /\ TriangleCount >= 2
    /\ Triangle(1)[1] = Triangle(2)[1] /\ Triangle(1)[3] = Triangle(2)[2]
    /\ buffer.facets[1].v1 = buffer.facets[2].v1
    /\ buffer.facets[1].v3 = buffer.facets[2].v2
    /\ buffer.facets[1].v2 # buffer.facets[1].v3

\* C12: with every effect disabled the ImageData processImage returns has
\* the working size and holds, sample for sample (R, G, B and A), the pixels
\* the source image was drawn as at that size.
C12_NoEffectsIdentity ==
    (/\ pc \in {"image", "heightmap"}
     /\ ~imageSettings.grayscale /\ ~imageSettings.invert
     /\ imageSettings.brightness = 0 /\ imageSettings.contrast = 0
     /\ imageSettings.gamma = 10 /\ imageSettings.blur = 0
     /\ imageSettings.sharpen = 0 /\ imageSettings.noiseReduction = 0) =>
        /\ Len(imageData.data) = 4 * imageData.width * imageData.height
        /\ \A k \in 1..Len(imageData.data) :
               imageData.data[k]
                   = DrawImage(originalImage, imageData.width, imageData.height)[k]

\* a 3 x 3 source holding coloured and translucent pixels has been processed
\* with every effect disabled at a resolution of 2, that is, scaled down
C12_Witness ==
    /\ pc = "image"
    /\ imageSettings = NoEffects
    /\ originalImage.width = 3 /\ originalImage.height = 3
    /\ imageData.width = 2 /\ imageData.height = 2
    /\ \E k \in 1..16 : imageData.data[k] = 200
    /\ \E k \in 1..16 : imageData.data[k] = 9

\* C13: the width and height processImage works at (the size it gives the
\* canvas, and the size of the ImageData it returns) are those of the source
\* when both are <= maxResolution; otherwise they are the floors of the
\* source's width and height times maxResolution / s, s being the larger
\* side (the smaller of the two quotients), and neither exceeds maxResolution.
C13_WorkingSize ==
    (pc # "source") =>
        LET w == originalImage.width
            h == originalImage.height
            m == settings.resolution
            s == IF w > h THEN w ELSE h
        IN  /\ (w <= m /\ h <= m) => (canvas.width = w /\ canvas.height = h)
            /\ (w > m \/ h > m) =>
                   /\ s \in {w, h} /\ s >= w /\ s >= h
                   /\ canvas.width * s <= w * m /\ w * m < (canvas.width + 1) * s
                   /\ canvas.height * s <= h * m /\ h * m < (canvas.height + 1) * s
            /\ canvas.width <= m /\ canvas.height <= m
            /\ pc \in {"image", "heightmap"} =>
                   (imageData.width = canvas.width /\ imageData.height = canvas.height)

\* a 3 x 2 source has been processed at a resolution of 2: it is 2 x 1 now
C13_Witness ==
    /\ pc = "image"
    /\ originalImage.width = 3 /\ originalImage.height = 2
    /\ settings.resolution = 2
    /\ imageData.width = 2 /\ imageData.height = 1

\* the three corners of triangle t are on one line, or two of them coincide:
\* a multiple of C - B equals a multiple of A - B
Degenerate(t) ==
    LET vA == geometry.vertices[Triangle(t)[1] + 1]
        vB == geometry.vertices[Triangle(t)[2] + 1]
        vC == geometry.vertices[Triangle(t)[3] + 1]
    IN  /\ NaN \notin {vA[3], vB[3], vC[3]}
        /\ \E p \in (0 - 2)..2, q \in (0 - 2)..2 :
               /\ <<p, q>> # <<0, 0>>
               /\ \A k \in 1..3 : p * (vC[k] - vB[k]) = q * (vA[k] - vB[k])

\* C16: parse does not fail on a flat mesh with degenerate triangles: every
\* triangle whose corners are collinear or coincident gets the normal
\* (0, 0, 0) and a full record (its three corners, the attribute 0, inside
\* the buffer).
C16_DegenerateNormal ==
    (pc = "stl" /\ ~geometry.curved) =>
        /\ error = "none"
        /\ Len(buffer.facets) = TriangleCount
        /\ \A t \in 1..TriangleCount :
               Degenerate(t) =>
                   /\ buffer.facets[t].normal = <<0, 0, 0>>
                   /\ buffer.facets[t].v1 = geometry.vertices[Triangle(t)[1] + 1]
                   /\ buffer.facets[t].v2 = geometry.vertices[Triangle(t)[2] + 1]
                   /\ buffer.facets[t].v3 = geometry.vertices[Triangle(t)[3] + 1]
                   /\ buffer.facets[t].attribute = 0
                   /\ buffer.facets[t].at.attribute + 2 <= buffer.byteLength

\* a generated mesh whose frame ring lies at Z = 0, so that the corners of
\* its wall triangles coincide in pairs, has been serialized next to proper
\* triangles
C16_Witness ==
    /\ pc = "stl"
    /\ settings.baseHeight = 0 /\ settings.frameDepth = 0
    /\ TriangleCount > 0
    /\ \E t \in 1..TriangleCount : IsWallTriangle(t) /\ Degenerate(t)
    /\ \E t \in 1..TriangleCount : IsTopTriangle(t) /\ ~Degenerate(t)

\* C17 as stated: parse on a mesh of zero triangles fails with an
\* EmptyMeshError and returns no buffer.
C17_Claim ==
    (pc = "stl" /\ TriangleCount = 0) =>
        (error = "EmptyMeshError" /\ buffer = NoBuffer)

\* generateMesh has just returned or thrown (the geometries handed to parse
\* directly are not its work)
MeshCalled ==
    pc = "failed" \/ (pc = "mesh" /\ geometry \notin {EmptyMesh, DegenerateMesh})

\* C18 as stated: generateMesh fails with an InvalidModelSettingsError and
\* produces no vertex or triangle when settings.width <= 0,
\* settings.height <= 0 or a pixel dimension is 0.
C18_Claim ==
    (/\ MeshCalled
     /\ \/ settings.width <= 0 \/ settings.height <= 0
        \/ imgW = 0 \/ imgH = 0) =>
        (error = "InvalidModelSettingsError" /\ geometry = NoGeometry)

\* C19 as stated: generateMesh fails with an EmptyHeightmapError and builds
\* no mesh when the heightmap length differs from widthPx * heightPx.
C19_Claim ==
    (/\ MeshCalled
     /\ settings.width > 0 /\ settings.height > 0
     /\ Len(heightmap) # imgW * imgH) =>
        (error = "EmptyHeightmapError" /\ geometry = NoGeometry)

\* C20 as stated: processImage fails with an InvalidDimensionsError when the
\* width or height it works at is 0, and returns no ImageData then.
C20_Claim ==
    (pc # "source" /\ (canvas.width = 0 \/ canvas.height = 0)) =>
        (error = "InvalidDimensionsError" /\ imageData = NoImage)

\* what processImage drew before filtering, and the size it worked at
Drawn == DrawImage(originalImage, imageData.width, imageData.height)
Processed == pc \in {"image", "heightmap"}

\* s is the byte stored for the value v = <<n, d>>: 0 for NaN, otherwise the
\* integer nearest to v clamped to [0, 255]
NearestByte(s, v) ==
    /\ s \in 0..255
    /\ IF v[2] = 0 THEN s = 0
       ELSE IF v[1] <= 0 THEN s = 0
       ELSE IF v[1] >= 255 * v[2] THEN s = 255
       ELSE 2 * (s * v[2] - v[1]) <= v[2] /\ 2 * (v[1] - s * v[2]) <= v[2]

\* C23: with no median, sharpen or blur stage, every stored R, G, B is the
\* byte nearest to the value of the chain grayscale, + brightness,
\* f * (c - 128) + 128, 255 - c, gamma, carried unclamped from step to step
\* and clamped to [0, 255] at the end; alpha is the drawn alpha.
C23_PointChainOrder ==
    (/\ Processed
     /\ imageSettings.noiseReduction = 0 /\ imageSettings.sharpen = 0
     /\ imageSettings.blur = 0) =>
        \A k \in 1..Len(imageData.data) :
            LET i  == 4 * ((k - 1) \div 4)
                v0 == IF imageSettings.grayscale
                      THEN << 299 * Drawn[i + 1] + 587 * Drawn[i + 2] + 114 * Drawn[i + 3],
                              1000 >>
                      ELSE << Drawn[k], 1 >>
                v1 == << v0[1] + imageSettings.brightness * v0[2], v0[2] >>
                f  == ContrastFactor(imageSettings.contrast)
                v2 == << f[1] * (v1[1] - 128 * v1[2]) + 128 * f[2] * v1[2], f[2] * v1[2] >>
                v3 == IF imageSettings.invert THEN << 255 * v2[2] - v2[1], v2[2] >> ELSE v2
                v4 == IF imageSettings.gamma # 10
                      THEN GammaCorrect(v3, imageSettings.gamma) ELSE v3
            IN  /\ f[1] * 255 * (259 - imageSettings.contrast)
                       = f[2] * 259 * (imageSettings.contrast + 255)
                /\ IF (k - 1) % 4 = 3 THEN imageData.data[k] = Drawn[k]
                   ELSE NearestByte(imageData.data[k], v4)

\* a white pixel has gone through brightness +50 and contrast -100: 305 after
\* the first step, outside [0, 255], and 206 at the end
C23_Witness ==
    /\ pc = "image"
    /\ imageSettings.brightness = 50 /\ imageSettings.contrast = 0 - 100
    /\ \E k \in 1..Len(imageData.data) : Drawn[k] = 255 /\ imageData.data[k] = 206

\* the middle of the nine values of channel c around pixel (x, y) of snap:
\* a value with at least five of them on either side of it
MiddleOfNine(snap, w, x, y, c) ==
    LET around == { <<dx, dy>> : dx \in {0 - 1, 0, 1}, dy \in {0 - 1, 0, 1} }
        at(d) == snap[4 * ((y + d[2]) * w + (x + d[1])) + c + 1]
    IN  CHOOSE m \in { at(d) : d \in around } :
            /\ Cardinality({ d \in around : at(d) <= m }) >= 5
            /\ Cardinality({ d \in around : at(d) >= m }) >= 5

\* one median pass as claimed: interior R, G, B from the snapshot, the rest kept
ClaimedMedianPass(snap, w, h) ==
    [ k \in 1..Len(snap) |->
        LET x == ((k - 1) \div 4) % w
            y == ((k - 1) \div 4) \div w
        IN  IF (k - 1) % 4 < 3 /\ x > 0 /\ x < w - 1 /\ y > 0 /\ y < h - 1
            THEN MiddleOfNine(snap, w, x, y, (k - 1) % 4)
            ELSE snap[k] ]

RECURSIVE ClaimedMedianPasses(_, _, _, _)
ClaimedMedianPasses(data, w, h, n) ==
    IF n = 0 THEN data ELSE ClaimedMedianPass(ClaimedMedianPasses(data, w, h, n - 1), w, h)

\* C24: with noiseReduction > 0 (and no sharpen or blur stage after it) the
\* returned samples are those of ceil(noiseReduction / 3) median passes over
\* the point-operated samples, each pass computed from the result of the
\* previous one as a whole; the border samples are the point-operated ones.
C24_MedianPasses ==
    (/\ Processed
     /\ imageSettings.noiseReduction > 0 /\ imageSettings.sharpen = 0
     /\ imageSettings.blur = 0) =>
        LET w == imageData.width
            h == imageData.height
            pointed == PointOps(Drawn, imageSettings)
            n == CHOOSE j \in 0..imageSettings.noiseReduction :
                     3 * j >= imageSettings.noiseReduction
                     /\ 3 * (j - 1) < imageSettings.noiseReduction
        IN  /\ imageData.data = ClaimedMedianPasses(pointed, w, h, n)
            /\ \A k \in 1..Len(pointed) :
                   LET x == ((k - 1) \div 4) % w
                       y == ((k - 1) \div 4) \div w
                   IN  (x = 0 \/ x = w - 1 \/ y = 0 \/ y = h - 1)
                           => imageData.data[k] = pointed[k]

\* the 4 x 3 image has gone through two median passes (noiseReduction 4),
\* and one pass would have given something else
C24_Witness ==
    /\ pc = "image"
    /\ originalImage = TwoInteriorImage /\ imageData.width = 4
    /\ imageSettings.noiseReduction = 4
    /\ imageData.data # ClaimedMedianPass(Drawn, 4, 3)
    /\ imageData.data # Drawn

\* C25: with sharpen > 0 (and no blur stage after it) every interior R, G, B
\* is the byte nearest to clamp((1 + 4 a) * centre - a * (top + bottom + left
\* + right)), a = sharpen / 10, all five read from the samples as they were
\* before sharpening; border samples and alpha are those samples unchanged.
C25_SharpenKernel ==
    (Processed /\ imageSettings.sharpen > 0 /\ imageSettings.blur = 0) =>
        LET w == imageData.width
            h == imageData.height
            before == applyFilters(Drawn, [imageSettings EXCEPT !.sharpen = 0], w, h)
        IN  \A k \in 1..Len(before) :
                LET c == (k - 1) % 4
                    x == ((k - 1) \div 4) % w
                    y == ((k - 1) \div 4) \div w
                IN  IF c < 3 /\ x > 0 /\ x < w - 1 /\ y > 0 /\ y < h - 1
                    THEN NearestByte(imageData.data[k],
                             << (10 + 4 * imageSettings.sharpen) * before[k]
                                - imageSettings.sharpen
                                  * (before[k - 4 * w] + before[k + 4 * w]
                                     + before[k - 4] + before[k + 4]),
                                10 >>)
                    ELSE imageData.data[k] = before[k]

\* the 4 x 3 image has been sharpened: both interior pixels changed
C25_Witness ==
    /\ pc = "image"
    /\ originalImage = TwoInteriorImage /\ imageData.width = 4
    /\ imageSettings.sharpen = 5 /\ imageSettings.noiseReduction = 0
    /\ \E c \in 1..3 : imageData.data[4 * 5 + c] # Drawn[4 * 5 + c]
    /\ \E c \in 1..3 : imageData.data[4 * 6 + c] # Drawn[4 * 6 + c]

\* the sum of f over the finite set S
RECURSIVE SumOver(_, _)
SumOver(f, S) ==
    IF S = {} THEN 0
    ELSE LET e == CHOOSE e \in S : TRUE IN f[e] + SumOver(f, S \ {e})

\* the pixels of the 3 x 3 neighbourhood of pixel i (from 1) that lie in the
\* w x h image, as indices from 1
InBounds3x3(w, h, i) ==
    { j \in 1..(w * h) :
        LET dx == ((j - 1) % w) - ((i - 1) % w)
            dy == ((j - 1) \div w) - ((i - 1) \div w)
        IN  dx \in {0 - 1, 0, 1} /\ dy \in {0 - 1, 0, 1} }

\* one pass as claimed: the mean of the in-bounds neighbourhood of the
\* previous result, in units BlurDen times finer (mean = sum * q / BlurDen
\* for the q with q * count = BlurDen)
ClaimedMeanPass(prev, w, h) ==
    [ i \in 1..(w * h) |->
        LET near == InBounds3x3(w, h, i)
            q == CHOOSE q \in 1..BlurDen : q * Cardinality(near) = BlurDen
        IN  SumOver(prev, near) * q ]

RECURSIVE ClaimedMeanPasses(_, _, _, _)
ClaimedMeanPasses(hm, w, h, k) ==
    IF k = 0 THEN hm ELSE ClaimedMeanPass(ClaimedMeanPasses(hm, w, h, k - 1), w, h)

DirectedEdges(t) ==
    { << Triangle(t)[1], Triangle(t)[2] >>, << Triangle(t)[2], Triangle(t)[3] >>,
      << Triangle(t)[3], Triangle(t)[1] >> }

\* C27: the mesh is consistently oriented: every directed edge (u, v) of a
\* triangle is an edge of that triangle only, and its reverse (v, u) is an
\* edge of exactly one triangle, another one; top, bottom and wall
\* triangles alike.
C27_ConsistentOrientation ==
    MeshBuilt =>
        LET inc == Incident
        IN  /\ inc = inc
            /\ \A t \in 1..TriangleCount :
                \A e \in DirectedEdges(t) :
                    LET near == inc[e[1]] \cap inc[e[2]]
                    IN  /\ { s \in near : e \in DirectedEdges(s) } = {t}
                        /\ Cardinality({ s \in near : <<e[2], e[1]>> \in DirectedEdges(s) })
                               = 1
                        /\ <<e[2], e[1]>> \notin DirectedEdges(t)

\* a framed mesh has been built, with wall triangles meeting top and bottom
\* triangles along the rim and each other at the four corner columns
C27_Witness ==
    /\ pc = "mesh"
    /\ settings.frameWidth = 2 /\ settings.width = 4
    /\ imgW = 2 /\ imgH = 2
    /\ \E t \in 1..TriangleCount : IsWallTriangle(t)
    /\ \E t \in 1..TriangleCount : IsBottomTriangle(t)
    /\ \E s, t \in 1..TriangleCount :
           /\ IsWallTriangle(s) /\ IsWallTriangle(t) /\ s # t
           /\ \E e \in DirectedEdges(s) :
                  e[1] % 2 # e[2] % 2 /\ <<e[2], e[1]>> \in DirectedEdges(t)

FreshCall == processImageOnCanvas(NewCanvas, originalImage, imageSettings, settings.resolution)

\* C22: whatever calls were made before on the shared ImageProcessor, a
\* call returns what the same call returns on a new one: processImage the
\* same ImageData (or the same failure), generateHeightmap, generateMesh
\* and parse the results that follow from it alone.
C22_Independent ==
    /\ pc = "failed" => FreshCall.threw
    /\ pc \in {"image", "heightmap", "mesh", "stl"} =>
           ~FreshCall.threw /\ imageData = FreshCall.result
    /\ pc \in {"heightmap", "mesh", "stl"} =>
           heightmap = generateHeightmap(FreshCall.result)
    /\ pc \in {"mesh", "stl"} =>
           geometry = generateMesh(generateHeightmap(FreshCall.result),
                                   FreshCall.result.width, FreshCall.result.height, settings)
    /\ pc = "stl" =>
           buffer = parse(generateMesh(generateHeightmap(FreshCall.result),
                                       FreshCall.result.width, FreshCall.result.height,
                                       settings))

\* processImage has returned on a canvas an earlier run left at another
\* size (the caller still holds that run's heightmap and STL), for an
\* image with a pixel that is not opaque, which lets the bitmap under it
\* show if it had not been cleared
C22_Witness ==
    /\ pc = "image"
    /\ buffer # NoBuffer
    /\ Len(heightmap) > 0
    /\ Len(heightmap) # imageData.width * imageData.height
    /\ \E k \in 1..Len(imageData.data) : k % 4 = 0 /\ imageData.data[k] \in 1..254

\* C28: in every state of the store, a heightmap that is not null has
\* imageDimensions.width * imageDimensions.height values, and it and the
\* dimensions come from one processing run (the ImageData of that run).
C28_StoreConsistent ==
    (pc = "app" /\ heightmap # <<>>) =>
        /\ Len(heightmap) = imageDimensions.width * imageDimensions.height
        /\ imageDimensions.width = imageData.width
        /\ imageDimensions.height = imageData.height
        /\ Len(imageData.data) = 4 * Len(heightmap)

\* the store holds the heightmap of a run that scaled the image down (the
\* 2 x 2 image at resolution 1), after a run at another size
C28_Witness ==
    /\ pc = "app"
    /\ originalImage.width = 2 /\ originalImage.height = 2
    /\ Len(heightmap) = 1
    /\ imageDimensions = [ width |-> 1, height |-> 1 ]
    /\ Len(uploads) = 2 /\ uploads[1].state = "fulfilled" /\ uploads[2].state = "fulfilled"

\* the store holds what updatePreview makes of the latest image, image
\* settings and resolution, or that updatePreview throws
UpToDate ==
    LET run == updatePreview(NewCanvas, originalImage, imageSettings, settings.resolution)
    IN  \/ run.threw
        \/ /\ imageData = run.imageData
           /\ imageDimensions = run.imageDimensions
           /\ heightmap = run.heightmap

\* C29: re-processing is debounced.  A pending timeout is always the one of
\* the latest change: it holds the current originalImage, imageSettings and
\* resolution, so the re-process it runs is never one with older settings.
\* A timeout is set only by a change (of the image, the image settings or
\* the resolution).  A pending timeout is eventually gone, and whenever none
\* is pending and there is an image, the re-process has run with the latest
\* settings: the store holds its results.
C29_Debounce ==
    /\ [](timer.pending =>
             /\ timer.img = originalImage /\ originalImage # NoImage
             /\ timer.st = imageSettings
             /\ timer.resolution = settings.resolution)
    /\ [][timer'.pending /\ timer' # timer =>
             \/ uploads' # uploads
             \/ imageSettings' # imageSettings
             \/ settings'.resolution # settings.resolution]_vars
    /\ []((pc = "app" /\ ~timer.pending /\ originalImage # NoImage) => UpToDate)
    /\ (timer.pending ~> ~timer.pending)

\* the timeout has fired after the image settings and the resolution were
\* changed while it was pending, and the store holds the inverted, scaled image
C29_Witness ==
    /\ pc = "app"
    /\ ~timer.pending
    /\ originalImage.width = 2
    /\ imageSettings.invert /\ settings.resolution = 1
    /\ Len(heightmap) = 1
    /\ error = "none"

\* C30: once both loads have finished and no timeout is pending, the store
\* holds the file selected last as originalImage, and the dimensions and
\* heightmap made from it, whichever load finished first.
C30_Claim ==
    (/\ pc = "app"
     /\ Len(uploads) = 2
     /\ uploads[1].state = "fulfilled" /\ uploads[2].state = "fulfilled"
     /\ ~timer.pending) =>
        /\ originalImage = uploads[2].file
        /\ LET run == updatePreview(NewCanvas, uploads[2].file, imageSettings,
                                    settings.resolution)
           IN  ~run.threw =>
                   imageDimensions = run.imageDimensions /\ heightmap = run.heightmap

====
